---- MODULE Spec2Model ----
(***************************************************************************)
(* Buddy allocator workshop: the list allocator (Vec and LinkedList block  *)
(* lists), the red-black-tree allocator (Vec and SinglyLinkedList free     *)
(* lists) and the bitmap allocator, driven by the same sequence of public  *)
(* calls.                                                                  *)
(***************************************************************************)
EXTENDS Integers, Sequences, FiniteSets, Bags, TLC

\* Number of orders the model is built with.  The source is configured with
\* 19 (lib.rs:28, main.rs:37); the constant is documented as free to modify.
MaxLevels == 3
LEVEL_COUNT == MaxLevels
ORDERS == LEVEL_COUNT
MAX_ORDER == LEVEL_COUNT - 1
BASE_ORDER == 12
MIN_ORDER == 12
TOP_ORDER == BASE_ORDER + MAX_ORDER
U8_MAX == 255

VARIABLES
    debug_assertions,   \* build profile: cfg!(debug_assertions)
    demo,               \* the allocators the run drives
    regions,            \* bases passed to create_top_level, in call order
    lists,              \* list allocator: L -> BuddyAllocator<L>.lists
    rb,                 \* tree allocator: L -> [tree, heap, free]
    flat_blocks,        \* bitmap allocator: Tree.flat_blocks (0-indexed)
    call,               \* the last public call
    result,             \* what the last call returned, per variant
    returned,           \* per variant, the bag of blocks handed out so far
    twin                \* a second allocator of each kind, given the same calls

vars == <<debug_assertions, demo, regions, lists, rb, flat_blocks, call, result,
          returned, twin>>

ListKinds == {"Vec", "LinkedList"}
FreeKinds == {"Vec", "SinglyLinkedList"}
ListVariants == {"lists_Vec", "lists_LinkedList"}
TreeVariants == {"tree_Vec", "tree_SinglyLinkedList"}
Variants == ListVariants \cup TreeVariants \cup {"bitmap"}

ListVariant(L) == IF L = "Vec" THEN "lists_Vec" ELSE "lists_LinkedList"
TreeVariant(L) == IF L = "Vec" THEN "tree_Vec" ELSE "tree_SinglyLinkedList"

----------------------------------------------------------------------------
\* Arithmetic helpers

\* 1 << n
Pow2(n) == 2^n

Min(S) == CHOOSE x \in S : \A y \in S : x <= y
Min2(a, b) == IF a <= b THEN a ELSE b
\* cmp::max
Max2(a, b) == IF a >= b THEN a ELSE b

\* u8 subtraction: overflow panics in a debug build and wraps in a release build
U8SubPanics(a, b) == debug_assertions /\ a < b
U8Sub(a, b) == (a - b + 256) % 256

Some(x) == [tag |-> "Some", val |-> x]
None == [tag |-> "None"]

\* Iterator::nth on a sequence (0-based)
Nth(seq, n) == IF n >= 0 /\ n < Len(seq) THEN Some(seq[n + 1]) ELSE None
Reverse(seq) == [i \in 1..Len(seq) |-> seq[Len(seq) + 1 - i]]
RemoveAt(seq, i) == SubSeq(seq, 1, i) \o SubSeq(seq, i + 2, Len(seq))
InsertAt(seq, i, x) == SubSeq(seq, 1, i) \o <<x>> \o SubSeq(seq, i + 1, Len(seq))

\* Size in bytes of a block of the given order
BlockSize(order) == Pow2(BASE_ORDER + order)

----------------------------------------------------------------------------
\* List allocator (buddy_allocator_lists.rs)

Block(begin_address, order, state) ==
    [begin_address |-> begin_address, order |-> order, state |-> state]

BlockIndex(order, index) == [order |-> order, index |-> index]

\* position that takes the first block, whatever its state
BlockList_position_any_state(list) == IF list = <<>> THEN None ELSE Some(0)

\* position that starts its scan at the second element
BlockList_position_skips_first(list) ==
    LET S == {i \in 2..Len(list) : list[i].state = "Free"}
    IN  IF S = {} THEN None ELSE Some(Min(S) - 1)

\* BlockList::position with the predicate |block| block.state == Free
BlockList_position(list) ==
    LET S == {i \in 1..Len(list) : list[i].state = "Free"}
    IN  IF S = {} THEN None ELSE Some(Min(S) - 1)

\* push that puts the item in front
BlockList_push_front(list, item) == <<item>> \o list

\* BlockList::push (push_back)

BlockList_push(list, item) == Append(list, item)

Vec_get(list, index) ==
    IF Len(list) > index THEN Some(list[index + 1]) ELSE None

\* LinkedList: walks from the front for the first half, from the back otherwise.
\* len - 1 - index on usize overflows when index >= len.
LinkedList_get(list, index) ==
    LET len == Len(list)
    IN  IF len = 0 THEN None
        ELSE IF index < len \div 2 THEN Nth(list, index)
        ELSE IF len - 1 - index < 0
             THEN (IF debug_assertions THEN [tag |-> "Panic"] ELSE None)
        ELSE Nth(Reverse(list), len - 1 - index)

BlockList_get(L, list, index) ==
    IF L = "Vec" THEN Vec_get(list, index) ELSE LinkedList_get(list, index)

\* get_mut yields a reference into the list: the position of the element it
\* designates
Vec_get_mut(list, index) ==
    IF Len(list) > index THEN Some(index) ELSE None

\* The walk from the back counted as if it were from the front
LinkedList_get_mut_back_as_front(list, index) ==
    LET len == Len(list)
    IN  IF len = 0 THEN None
        ELSE IF index < len \div 2 THEN Some(index)
        ELSE IF len - 1 - index < 0
             THEN (IF debug_assertions THEN [tag |-> "Panic"] ELSE None)
        ELSE Some(len - 1 - index)

\* iter_mut().nth(index) in the first half, iter_mut().rev().nth(len - 1 - index)
\* otherwise: the element that many places before the last
LinkedList_get_mut(list, index) ==
    LET len == Len(list)
    IN  IF len = 0 THEN None
        ELSE IF index < len \div 2 THEN Some(index)
        ELSE IF len - 1 - index < 0
             THEN (IF debug_assertions THEN [tag |-> "Panic"] ELSE None)
        ELSE Some((len - 1) - (len - 1 - index))

BlockList_get_mut(L, list, index) ==
    IF L = "Vec" THEN Vec_get_mut(list, index) ELSE LinkedList_get_mut(list, index)

\* Vec::remove panics when index >= len
Vec_remove(list, index) ==
    IF index >= Len(list) THEN [tag |-> "Panic", list |-> list]
    ELSE [tag |-> "Ok", list |-> RemoveAt(list, index)]

\* The tail loses its last element: pop_back in the place of pop_front
LinkedList_remove_pops_back(list, index) ==
    IF index > Len(list) THEN [tag |-> "Panic", list |-> list]
    ELSE LET second_part == SubSeq(list, index + 1, Len(list))
             popped == IF second_part = <<>> THEN <<>>
                       ELSE SubSeq(second_part, 1, Len(second_part) - 1)
         IN  [tag |-> "Ok", list |-> SubSeq(list, 1, index) \o popped]

\* split_off panics when index > len; pop_front of an empty tail does nothing
LinkedList_remove(list, index) ==
    IF index > Len(list) THEN [tag |-> "Panic", list |-> list]
    ELSE LET second_part == SubSeq(list, index + 1, Len(list))
             popped == IF second_part = <<>> THEN <<>> ELSE Tail(second_part)
         IN  [tag |-> "Ok", list |-> SubSeq(list, 1, index) \o popped]

\* remove that leaves the list as it is
BlockList_remove_keeps(L, list, index) == [tag |-> "Ok", list |-> list]

\* BlockList::remove

BlockList_remove(L, list, index) ==
    IF L = "Vec" THEN Vec_remove(list, index) ELSE LinkedList_remove(list, index)

lists_new == [order \in 0..MAX_ORDER |-> <<>>]

\* BuddyAllocator::get: indexing self.lists panics when the order is too large
lists_get(L, ls, index) ==
    IF index.order > MAX_ORDER THEN [tag |-> "Panic"]
    ELSE BlockList_get(L, ls[index.order], index.index)

\* modify that finds the block and leaves its state as it was
lists_modify_keeps_state(L, ls, index, new_state) ==
    IF lists_get(L, ls, index).tag # "Some" THEN [tag |-> "Panic", lists |-> ls]
    ELSE [tag |-> "Ok", lists |-> ls]

\* BuddyAllocator::get_mut: indexing self.lists panics when the order is too large
lists_get_mut(L, ls, index) ==
    IF index.order > MAX_ORDER THEN [tag |-> "Panic"]
    ELSE BlockList_get_mut(L, ls[index.order], index.index)

\* BuddyAllocator::modify: get_mut(index).unwrap(), then the state is written
\* through the reference
lists_modify(L, ls, index, new_state) ==
    LET got == lists_get_mut(L, ls, index)
    IN  IF got.tag # "Some" THEN [tag |-> "Panic", lists |-> ls]
        ELSE [tag |-> "Ok",
              lists |-> [ls EXCEPT ![index.order][got.val + 1].state = new_state]]

\* The top-level block pushed on the list of the lowest order
lists_create_top_level_lowest(ls, begin_address) ==
    [ls EXCEPT ![0] = BlockList_push(@, Block(begin_address, MAX_ORDER, "Free"))]

\* BuddyAllocator::create_top_level
lists_create_top_level(ls, begin_address) ==
    [ls EXCEPT ![MAX_ORDER] =
        BlockList_push(@, Block(begin_address, MAX_ORDER, "Free"))]

\* The second buddy's offset computed without MIN_ORDER
lists_buddy_address_no_min_order(begin_address, order) == begin_address + Pow2(order)

\* Address of the second buddy of an order-`order` pair
lists_buddy_address(begin_address, order) == begin_address + Pow2(order + MIN_ORDER)

\* The index of the front of the list
lists_front_of_list(len) == 0

\* The index of the buddy pushed last
lists_second_buddy(len) == len - 1

\* The index split returns, that of the first buddy: len() - 2
lists_first_buddy(len) == len - 2

\* BuddyAllocator::split
lists_split(L, ls, index) ==
    LET Panic == [tag |-> "Panic", lists |-> ls]
        Buddies(block, original_order, order) ==
            LET first == Block(block.begin_address, order, "Free")
                second == Block(lists_buddy_address(block.begin_address, order),
                                order, "Free")
                Push(removed) ==
                    IF removed.tag = "Panic" THEN Panic
                    ELSE LET Pushed(ls3) ==
                                 [tag |-> "Ok", lists |-> ls3,
                                  index |-> BlockIndex(order,
                                             lists_first_buddy(Len(ls3[order])))]
                         IN  Pushed([ls EXCEPT
                                 ![original_order] = removed.list,
                                 ![order] = BlockList_push(BlockList_push(@, first),
                                                           second)])
            IN  Push(BlockList_remove(L, ls[original_order], index.index))
        Checked(block) ==
            IF block.state = "Used" THEN Panic
            ELSE IF debug_assertions /\ block.order # index.order THEN Panic
            ELSE IF U8SubPanics(block.order, 1) THEN Panic
            ELSE IF index.order = 0
                 THEN [tag |-> "Err", err |-> "BlockSmallestPossible", lists |-> ls]
            ELSE IF block.order > MAX_ORDER \/ U8Sub(block.order, 1) > MAX_ORDER
                 THEN Panic
            ELSE Buddies(block, block.order, U8Sub(block.order, 1))
        Got(got) == IF got.tag # "Some" THEN Panic ELSE Checked(got.val)
    IN  Got(lists_get(L, ls, index))

\* BuddyAllocator::find_or_split; depth counts the nested calls
RECURSIVE lists_find_or_split(_, _, _)
lists_find_or_split(L, ls, order) ==
    LET Split(found, first) ==
            IF first.tag # "Ok"
            THEN [tag |-> "Panic", lists |-> ls, depth |-> found.depth + 1]
            ELSE [tag |-> "Ok", lists |-> first.lists, index |-> first.index,
                  depth |-> found.depth + 1]
        Found(found) ==
            IF found.tag # "Ok" THEN [found EXCEPT !.depth = @ + 1]
            ELSE Split(found, lists_split(L, found.lists, found.index))
        Position(opt) ==
            IF opt.tag = "Some"
            THEN [tag |-> "Ok", lists |-> ls, index |-> BlockIndex(order, opt.val),
                  depth |-> 1]
            ELSE IF order >= MAX_ORDER
            THEN [tag |-> "Err", err |-> "NoBlocksAvailable", lists |-> ls, depth |-> 1]
            ELSE Found(lists_find_or_split(L, ls, order + 1))
    IN  IF order > MAX_ORDER THEN [tag |-> "Panic", lists |-> ls, depth |-> 1]
        ELSE Position(BlockList_position(ls[order]))

\* allocate_exact after find_or_split returned: the `?`, modify(Used), and the
\* address its callers read through get(&index).unwrap().begin_address
lists_allocate_found(L, ls, found) ==
    LET Read(modified, got) ==
            IF modified.tag # "Ok" \/ got.tag # "Some"
            THEN [tag |-> "Panic", lists |-> ls, depth |-> found.depth]
            ELSE [tag |-> "Ok", lists |-> modified.lists, index |-> found.index,
                  block |-> got.val, address |-> got.val.begin_address,
                  depth |-> found.depth]
        Modified(modified) ==
            Read(modified, lists_get(L, modified.lists, found.index))
    IN  IF found.tag # "Ok" THEN found
        ELSE Modified(lists_modify(L, found.lists, found.index, "Used"))

\* allocate_exact without the order check (as in buddy_allocator.rs)
lists_allocate_exact_unchecked(L, ls, order) ==
    lists_allocate_found(L, ls, lists_find_or_split(L, ls, order))

\* BuddyAllocator::allocate_exact
lists_allocate_exact(L, ls, order) ==
    IF order > MAX_ORDER
    THEN [tag |-> "Err", err |-> "OrderTooLarge", order |-> order, lists |-> ls,
          depth |-> 0]
    ELSE lists_allocate_found(L, ls, lists_find_or_split(L, ls, order))

----------------------------------------------------------------------------
\* Tree allocator (buddy_allocator_tree.rs)

\* Block: one u64 bit field, used in bit 0, order in bits 1..8, address in 8..64.
\* The arguments are within their bit ranges in every call the model makes.
Block_new(begin_address, order, used) ==
    (IF used THEN 1 ELSE 0) + 2 * order + 256 * begin_address

Block_used(bit_field) == bit_field % 2 = 1
Block_order(bit_field) == (bit_field \div 2) % 128
Block_address(bit_field) == bit_field \div 256
Block_set_used(bit_field, used) ==
    bit_field - (bit_field % 2) + (IF used THEN 1 ELSE 0)

\* FreeList for Vec<*const Block>: the sequence is the vector
VecFree_push(list, block) == Append(list, block)
\* The pop that takes the entry with the lowest handle value
VecFree_pop_lowest_handle(list) ==
    IF list = <<>> THEN [val |-> None, list |-> list]
    ELSE LET lowest == Min({list[i] : i \in 1..Len(list)})
             at == Min({i \in 1..Len(list) : list[i] = lowest})
         IN  [val |-> Some(lowest), list |-> RemoveAt(list, at - 1)]

\* <Vec<*const Block> as FreeList>::pop
VecFree_pop(list) ==
    IF list = <<>> THEN [val |-> None, list |-> list]
    ELSE [val |-> Some(list[Len(list)]), list |-> SubSeq(list, 1, Len(list) - 1)]
\* remove that finds nothing to remove
VecFree_remove_nothing(list, block) == [tag |-> "None", list |-> list]

\* <Vec<*const Block> as FreeList>::remove

VecFree_remove(list, block) ==
    LET S == {i \in 1..Len(list) : list[i] = block}
    IN  IF S = {} THEN [tag |-> "None", list |-> list]
        ELSE [tag |-> "Some", list |-> RemoveAt(list, Min(S) - 1)]

\* FreeList for SinglyLinkedList<BlockPtrAdapter>: the sequence runs from the front
\* push that links the new entry at the back
SinglyLinkedList_push_back(list, block) == Append(list, block)

\* <SinglyLinkedList as FreeList>::push: push_front
SinglyLinkedList_push(list, block) == <<block>> \o list
SinglyLinkedList_pop(list) ==
    IF list = <<>> THEN [val |-> None, list |-> list]
    ELSE [val |-> Some(Head(list)), list |-> Tail(list)]
\* remove that unlinks the front entry when the handle is in the list
SinglyLinkedList_remove_front(list, block) ==
    IF \A i \in 1..Len(list) : list[i] # block THEN [tag |-> "None", list |-> list]
    ELSE [tag |-> "Some", list |-> Tail(list)]

\* The cursor starts on the front element and is moved pos - 1 times when
\* pos > 0; remove_next removes the element after the cursor, and its unwrap
\* panics when there is none.
SinglyLinkedList_remove(list, block) ==
    LET S == {i \in 1..Len(list) : list[i] = block}
    IN  IF S = {} THEN [tag |-> "None", list |-> list]
        ELSE LET pos == Min(S) - 1
                 cursor == IF pos > 0 THEN pos - 1 ELSE 0
                 next == cursor + 1
             IN  IF next >= Len(list) THEN [tag |-> "Panic", list |-> list]
                 ELSE [tag |-> "Some", list |-> RemoveAt(list, next)]

FreeList_push(L, list, block) ==
    IF L = "Vec" THEN VecFree_push(list, block) ELSE SinglyLinkedList_push(list, block)
FreeList_pop(L, list) ==
    IF L = "Vec" THEN VecFree_pop(list) ELSE SinglyLinkedList_pop(list)
FreeList_remove(L, list, block) ==
    IF L = "Vec" THEN VecFree_remove(list, block) ELSE SinglyLinkedList_remove(list, block)

\* BuddyAllocator::new: tree is the in-order sequence of Box<Block> pointers,
\* heap[ptr] the bit field of the Block in that Box, free the per-order lists.
tree_new == [tree |-> <<>>, heap |-> <<>>, free |-> [order \in 0..MAX_ORDER |-> <<>>]]

\* Box::new: a pointer no live Box has
Box_new(heap) == Len(heap) + 1

\* insert that puts the new element first, whatever its key
RBTree_insert_front(t, ptr) == InsertAt(t.tree, 0, ptr)

\* RBTree::insert: by key (the address), after the elements whose key is not larger
RBTree_insert(t, ptr) ==
    LET key == Block_address(t.heap[ptr])
        before == {i \in 1..Len(t.tree) : Block_address(t.heap[t.tree[i]]) <= key}
    IN  InsertAt(t.tree, Cardinality(before), ptr)

\* rbtree::CursorMut over the in-order sequence; 0 is the null cursor
Cursor_get(tree, cursor) == IF cursor = 0 THEN None ELSE Some(tree[cursor])
\* remove that leaves the element in the tree
Cursor_remove_nothing(tree, cursor) == [tree |-> tree, cursor |-> cursor]

\* CursorMut::remove: the cursor moves to the next element
Cursor_remove(tree, cursor) ==
    LET tree1 == RemoveAt(tree, cursor - 1)
    IN  [tree |-> tree1, cursor |-> IF cursor <= Len(tree1) THEN cursor ELSE 0]
\* insert_after in the place of insert_before
Cursor_insert_after(tree, cursor, ptr) ==
    IF cursor = 0 THEN [tree |-> <<ptr>> \o tree, cursor |-> 0]
    ELSE [tree |-> InsertAt(tree, cursor, ptr), cursor |-> cursor]

\* CursorMut::insert_before

Cursor_insert_before(tree, cursor, ptr) ==
    IF cursor = 0 THEN [tree |-> Append(tree, ptr), cursor |-> 0]
    ELSE [tree |-> InsertAt(tree, cursor - 1, ptr), cursor |-> cursor + 1]
\* move_prev that leaves the cursor where it is
Cursor_move_prev_stays(tree, cursor) == cursor

\* CursorMut::move_prev: from the null cursor to the last element

Cursor_move_prev(tree, cursor) ==
    IF cursor = 0 THEN Len(tree) ELSE cursor - 1
\* RBTree::cursor_mut_from_ptr
Cursor_from_ptr(tree, ptr) ==
    LET S == {i \in 1..Len(tree) : tree[i] = ptr}
    IN  IF S = {} THEN 0 ELSE Min(S)

tree_create_top_level(L, t, begin_address) ==
    LET ptr == Box_new(t.heap)
        t1 == [t EXCEPT !.heap = Append(@, Block_new(begin_address, MAX_ORDER, FALSE))]
        t2 == [t1 EXCEPT !.tree = RBTree_insert(t1, ptr)]
    IN  [t2 EXCEPT !.free[MAX_ORDER] = FreeList_push(L, @, ptr)]

\* The second buddy's offset computed from the original order
tree_buddy_address_original_order(begin_address, order) ==
    begin_address + Pow2(order + 1 + MIN_ORDER)

\* Address of the second buddy of an order-`order` pair
tree_buddy_address(begin_address, order) == begin_address + Pow2(order + MIN_ORDER)

\* BuddyAllocator::split: the old Box is reused for the first buddy
tree_split(t, cursor) ==
    LET Panic == [tag |-> "Panic", rb |-> t]
        Pointers(heap1, tree2, prev2, ptrs0, ptrs1) ==
            IF ptrs0.tag # "Some" \/ ptrs1.tag # "Some" THEN Panic
            ELSE [tag |-> "Ok", rb |-> [t EXCEPT !.tree = tree2, !.heap = heap1],
                  cursor |-> prev2, ptrs |-> <<ptrs1.val, ptrs0.val>>]
        Prev2(heap1, tree2, prev1, prev2) ==
            Pointers(heap1, tree2, prev2,
                     Cursor_get(tree2, prev1), Cursor_get(tree2, prev2))
        Prev1(heap1, tree2, prev1) ==
            Prev2(heap1, tree2, prev1, Cursor_move_prev(tree2, prev1))
        Inserted2(heap1, ins2) ==
            Prev1(heap1, ins2.tree, Cursor_move_prev(ins2.tree, ins2.cursor))
        Inserted1(heap1, ins1) ==
            Inserted2(heap1, Cursor_insert_before(ins1.tree, ins1.cursor,
                                                  Box_new(t.heap)))
        Removed(heap1, old, removed) ==
            Inserted1(heap1, Cursor_insert_before(removed.tree, removed.cursor, old))
        Buddies(block, old, order) ==
            LET first == Block_new(Block_address(block), order, FALSE)
                second == Block_new(tree_buddy_address(Block_address(block), order),
                                    order, FALSE)
            IN  Removed(Append([t.heap EXCEPT ![old] = first], second), old,
                        Cursor_remove(t.tree, cursor))
        Checked(block, old) ==
            IF Block_used(block) THEN Panic
            ELSE IF U8SubPanics(Block_order(block), 1) THEN Panic
            ELSE IF Block_order(block) = 0
                 THEN [tag |-> "Err", err |-> "BlockSmallestPossible", rb |-> t]
            ELSE Buddies(block, old, U8Sub(Block_order(block), 1))
        Got(got) == IF got.tag # "Some" THEN Panic ELSE Checked(t.heap[got.val], got.val)
    IN  Got(Cursor_get(t.tree, cursor))

\* BuddyAllocator::find_or_split; depth counts the nested calls
RECURSIVE tree_find_or_split(_, _, _)
tree_find_or_split(L, t, order) ==
    LET Pushed(found, halves, removed) ==
            IF removed.tag = "Panic"
            THEN [tag |-> "Panic", rb |-> t, depth |-> found.depth + 1]
            ELSE [tag |-> "Ok",
                  rb |-> [halves.rb EXCEPT
                            !.free[order + 1] = removed.list,
                            !.free[order] = FreeList_push(
                                L, FreeList_push(L, @, halves.ptrs[1]), halves.ptrs[2])],
                  cursor |-> halves.cursor, depth |-> found.depth + 1]
        Split(found, old_ptr, halves) ==
            IF halves.tag # "Ok"
            THEN [tag |-> "Panic", rb |-> t, depth |-> found.depth + 1]
            ELSE Pushed(found, halves,
                        FreeList_remove(L, halves.rb.free[order + 1], old_ptr))
        Found(found) ==
            IF found.tag # "Ok" THEN [found EXCEPT !.depth = @ + 1]
            ELSE IF found.cursor = 0
            THEN [tag |-> "Panic", rb |-> t, depth |-> found.depth + 1]
            ELSE Split(found, found.rb.tree[found.cursor],
                       tree_split(found.rb, found.cursor))
        Popped(next_free, popped) ==
            IF next_free.val.tag = "Some"
            THEN [tag |-> "Ok", rb |-> popped,
                  cursor |-> Cursor_from_ptr(popped.tree, next_free.val.val),
                  depth |-> 1]
            ELSE IF order = MAX_ORDER
            THEN [tag |-> "Err", err |-> "NoBlocksAvailable", rb |-> popped, depth |-> 1]
            ELSE Found(tree_find_or_split(L, popped, order + 1))
        Pop(next_free) == Popped(next_free, [t EXCEPT !.free[order] = next_free.list])
    IN  IF order > MAX_ORDER THEN [tag |-> "Panic", rb |-> t, depth |-> 1]
        ELSE Pop(FreeList_pop(L, t.free[order]))

\* BuddyAllocator::allocate_exact, with the address its callers read through
\* cursor.get().unwrap().address()
tree_allocate_exact(L, t, order) ==
    LET Removed(found, ptr, t1, removed) ==
            IF removed.tag = "Panic"
            THEN [tag |-> "Panic", rb |-> t, depth |-> found.depth]
            ELSE [tag |-> "Ok", rb |-> [t1 EXCEPT !.free[order] = removed.list],
                  cursor |-> found.cursor, block |-> t1.heap[ptr],
                  address |-> Block_address(t1.heap[ptr]), depth |-> found.depth]
        Used(found, ptr, t1) ==
            Removed(found, ptr, t1, FreeList_remove(L, t1.free[order], ptr))
        Target(found, ptr) ==
            Used(found, ptr, [found.rb EXCEPT !.heap[ptr] = Block_set_used(@, TRUE)])
        Found(found) ==
            IF found.tag # "Ok" THEN found
            ELSE IF found.cursor = 0
            THEN [tag |-> "Panic", rb |-> t, depth |-> found.depth]
            ELSE Target(found, found.rb.tree[found.cursor])
    IN  IF order > MAX_ORDER
        THEN [tag |-> "Err", err |-> "OrderTooLarge", order |-> order, rb |-> t,
              depth |-> 0]
        ELSE Found(tree_find_or_split(L, t, order))

----------------------------------------------------------------------------
\* Bitmap allocator (buddy_allocator_bitmap.rs)

\* new_free without the +1 offset
Block_new_free_no_offset(order) == order

\* Block::new_free

Block_new_free(order) == order + 1

\* An array one cell short
blocks_in_tree_one_short(levels) == Pow2(levels) - 2

blocks_in_tree(levels) == Pow2(levels) - 1

\* mem::uninitialized(): a cell not yet written holds no defined value
Uninitialized == -1

\* The inner loop stopping one cell short: for block in start..(start + size - 1)
RECURSIVE Tree_new_level_stops_short(_, _, _, _)
Tree_new_level_stops_short(cells, block, end, order) ==
    IF block >= end - 1 THEN cells
    ELSE Tree_new_level_stops_short([cells EXCEPT ![block] = Block_new_free(order)],
                                    block + 1, end, order)

\* The inner loop of Tree::new: for block in start..(start + size)
RECURSIVE Tree_new_level(_, _, _, _)
Tree_new_level(cells, block, end, order) ==
    IF block >= end THEN cells
    ELSE Tree_new_level([cells EXCEPT ![block] = Block_new_free(order)],
                        block + 1, end, order)

\* The outer loop of Tree::new: for level in 0..LEVEL_COUNT
RECURSIVE Tree_new_levels(_, _, _)
Tree_new_levels(cells, start, level) ==
    IF level >= LEVEL_COUNT THEN cells
    ELSE LET order == MAX_ORDER - level
             size == Pow2(level)
         IN  Tree_new_levels(Tree_new_level(cells, start, start + size, order),
                             start + size, level + 1)

Tree_new ==
    Tree_new_levels([i \in 0..(blocks_in_tree(LEVEL_COUNT) - 1) |-> Uninitialized], 0, 0)

\* left_child that stays on the node
left_child_stays(index) == index

\* flat_tree (1-indexed)
left_child(index) == 2 * index
\* parent that stays on the node
parent_stays(index) == index

\* flat_tree::parent

parent(index) == index \div 2

\* Tree::block / Tree::block_mut: the index must be inside the array
InTree(index) == index >= 0 /\ index < blocks_in_tree(LEVEL_COUNT)

\* The offset of every right child taken as one block of the lowest order
Tree_right_offset_lowest(level) == Pow2(BASE_ORDER)

\* The offset of a right child taken as the size of the node itself
Tree_right_offset_of_parent(level) == Pow2(TOP_ORDER - level)

\* The bytes by which the right child at `level` lies right of its parent:
\* 1 << (TOP_ORDER - level - 1)
Tree_right_offset(level) == Pow2(TOP_ORDER - level - 1)
\* The left child taken only when it has more than the desired order free
Tree_take_left_with_room(o, desired_order) == o # 0 /\ o > desired_order + 1

\* The left child can host the request: o != 0 && o > desired_order
Tree_take_left(o, desired_order) == o # 0 /\ o > desired_order

\* The descent with the left-child check written o >= desired_order
RECURSIVE Tree_descend_ge(_, _, _, _, _, _, _)
Tree_descend_ge(cells, desired_order, max_level, level, node_index, addr, touched) ==
    IF level >= max_level
    THEN [node_index |-> node_index, addr |-> addr, touched |-> touched, oob |-> FALSE]
    ELSE IF ~InTree(left_child(node_index) - 1)
    THEN [node_index |-> node_index, addr |-> addr,
          touched |-> touched \cup {left_child(node_index) - 1}, oob |-> TRUE]
    ELSE IF cells[left_child(node_index) - 1] # 0
            /\ cells[left_child(node_index) - 1] >= desired_order
    THEN Tree_descend_ge(cells, desired_order, max_level, level + 1,
                         left_child(node_index), addr,
                         touched \cup {left_child(node_index) - 1})
    ELSE Tree_descend_ge(cells, desired_order, max_level, level + 1,
                         left_child(node_index) + 1,
                         addr + Tree_right_offset(level),
                         touched \cup {left_child(node_index) - 1})

\* Descent: for level in 0..max_level.  Yields the node reached, the address,
\* the cell indices read and whether an index fell outside the array.
RECURSIVE Tree_descend(_, _, _, _, _, _, _)
Tree_descend(cells, desired_order, max_level, level, node_index, addr, touched) ==
    IF level >= max_level
    THEN [node_index |-> node_index, addr |-> addr, touched |-> touched, oob |-> FALSE]
    ELSE LET left_child_index == left_child(node_index)
         IN  IF ~InTree(left_child_index - 1)
             THEN [node_index |-> node_index, addr |-> addr,
                   touched |-> touched \cup {left_child_index - 1}, oob |-> TRUE]
             ELSE LET o == cells[left_child_index - 1]
                  IN  IF Tree_take_left(o, desired_order)
                      THEN Tree_descend(cells, desired_order, max_level, level + 1,
                                        left_child_index, addr,
                                        touched \cup {left_child_index - 1})
                      ELSE Tree_descend(cells, desired_order, max_level, level + 1,
                                        left_child_index + 1,
                                        addr + Tree_right_offset(level),
                                        touched \cup {left_child_index - 1})

\* The right turns of the descent in the order they are made: for each, the
\* level, the accumulator before `addr += 1 << (TOP_ORDER - level - 1)` and the
\* value added
RECURSIVE Tree_descend_turns(_, _, _, _, _, _)
Tree_descend_turns(cells, desired_order, max_level, level, node_index, addr) ==
    IF level >= max_level \/ ~InTree(left_child(node_index) - 1) THEN <<>>
    ELSE IF Tree_take_left(cells[left_child(node_index) - 1], desired_order)
    THEN Tree_descend_turns(cells, desired_order, max_level, level + 1,
                            left_child(node_index), addr)
    ELSE <<[level |-> level, addr |-> addr, added |-> Tree_right_offset(level)]>>
         \o Tree_descend_turns(cells, desired_order, max_level, level + 1,
                               left_child(node_index) + 1,
                               addr + Tree_right_offset(level))

\* Upward pass: for _ in 0..max_level.  Yields the cells, the indices used and
\* the node the last iteration stopped at.
RECURSIVE Tree_propagate(_, _, _, _)
Tree_propagate(cells, node_index, remaining, touched) ==
    IF remaining <= 0
    THEN [cells |-> cells, touched |-> touched, oob |-> FALSE,
          node_index |-> node_index]
    ELSE LET right_index == node_index - (node_index % 2)
             up == parent(node_index)
             used == {right_index - 1, right_index, up - 1}
         IN  IF \E i \in used : ~InTree(i)
             THEN [cells |-> cells, touched |-> touched \cup used, oob |-> TRUE,
                   node_index |-> node_index]
             ELSE LET left == cells[right_index - 1]
                      right == cells[right_index]
                  IN  Tree_propagate([cells EXCEPT ![up - 1] = Max2(left, right)],
                                     up, remaining - 1, touched \cup used)

\* The feasibility check with the +1 offset forgotten
Tree_infeasible_no_offset(root, desired_order) ==
    root = 0 \/ root < desired_order

\* The feasibility check of alloc_exact: the root has no order free, or not the
\* desired one
Tree_infeasible(root, desired_order) ==
    root = 0 \/ (root - 1) < desired_order

\* A refused request recorded in the root as exhaustion
Tree_alloc_none_marks_root(cells) ==
    [tag |-> "None", cells |-> [cells EXCEPT ![0] = 0], max_level |-> None,
     touched |-> {0}, iterations |-> 0]

\* return None: no cell is written
Tree_alloc_none(cells) ==
    [tag |-> "None", cells |-> cells, max_level |-> None, touched |-> {0},
     iterations |-> 0]

\* The cell after the block found is marked with it
Tree_mark_and_next(cells, index) ==
    [cells EXCEPT ![index] = 0, ![Min2(index + 1, blocks_in_tree(LEVEL_COUNT) - 1)] = 0]

\* The block found is handed out without being marked
Tree_mark_forgotten(cells, index) == cells

\* block.order_free = 0
Tree_mark(cells, index) == [cells EXCEPT ![index] = 0]

\* Tree::alloc_exact.  max_level is None when the subtraction was not reached.
Tree_alloc_exact(cells, desired_order) ==
    LET Propagated(max_level, down, upward) ==
            IF down.oob \/ ~InTree(down.node_index - 1) \/ upward.oob
            THEN [tag |-> "Panic", cells |-> cells, max_level |-> Some(max_level),
                  touched |-> upward.touched, iterations |-> max_level]
            ELSE [tag |-> "Some", address |-> down.addr, cells |-> upward.cells,
                  node_index |-> down.node_index, max_level |-> Some(max_level),
                  touched |-> upward.touched, iterations |-> max_level,
                  last_index |-> upward.node_index]
        Marked(max_level, down) ==
            IF down.oob \/ ~InTree(down.node_index - 1)
            THEN [tag |-> "Panic", cells |-> cells, max_level |-> Some(max_level),
                  touched |-> down.touched, iterations |-> max_level]
            ELSE Propagated(max_level, down,
                     Tree_propagate(Tree_mark(cells, down.node_index - 1),
                                    down.node_index, max_level,
                                    down.touched \cup {down.node_index - 1}))
        Descend(max_level) ==
            Marked(max_level,
                   Tree_descend(cells, desired_order, max_level, 0, 1, 0, {0}))
        Root(root) ==
            IF Tree_infeasible(root, desired_order) THEN Tree_alloc_none(cells)
            ELSE IF U8SubPanics(MAX_ORDER, desired_order)
            THEN [tag |-> "Panic", cells |-> cells, max_level |-> None,
                  touched |-> {0}, iterations |-> 0]
            ELSE Descend(U8Sub(MAX_ORDER, desired_order))
    IN  Root(cells[0])

----------------------------------------------------------------------------
\* The state machine: every public call is made on each allocator of the
\* family the run drives

\* Bases a caller may register, in either order and at any time: the two
\* regions the tests register, 0 and 2^(MIN_ORDER + MAX_ORDER).
RegionBases == {0, Pow2(MIN_ORDER + MAX_ORDER)}

\* Orders the callers request (u8): every valid order and the first that is too
\* large
RequestOrders == 0..(MAX_ORDER + 1)

\* Orders above MAX_ORDER: the first one and the largest u8
TooLarge == {MAX_ORDER + 1, U8_MAX}

Registered == {regions[i] : i \in 1..Len(regions)}

Handed(address, order) == [address |-> address, order |-> order]

Panicked == \E v \in Variants : result[v].tag = "Panic"

\* The demos of main.rs and bitmap.rs each drive one allocator family; the two
\* list kinds, and the two free-list kinds, are run side by side.
Demos == {ListVariants, TreeVariants, {"bitmap"}}

\* The second allocators as constructed
twin_new ==
    [lists |-> [L \in ListKinds |-> lists_new],
     rb |-> [L \in FreeKinds |-> tree_new],
     result |-> [v \in Variants |-> [tag |-> "New"]],
     downward |-> FALSE]

Init ==
    /\ debug_assertions \in BOOLEAN
    /\ demo \in Demos
    /\ regions = <<>>
    /\ lists = [L \in ListKinds |-> lists_new]
    /\ rb = [L \in FreeKinds |-> tree_new]
    /\ flat_blocks = Tree_new
    /\ call = [op |-> "new"]
    /\ result = [v \in Variants |-> [tag |-> "New"]]
    /\ returned = [v \in Variants |-> EmptyBag]
    /\ twin = twin_new

\* create_top_level(base) on the list and tree allocators.  A bitmap Tree has
\* no such operation: it is one region at base 0 from Tree::new on.
Registers(base) ==
    /\ ~Panicked
    /\ demo # {"bitmap"}
    /\ base \notin Registered
    /\ regions' = Append(regions, base)
    /\ lists' = [L \in ListKinds |->
                   IF ListVariant(L) \in demo
                   THEN lists_create_top_level(lists[L], base) ELSE lists[L]]
    /\ rb' = [L \in FreeKinds |->
                IF TreeVariant(L) \in demo
                THEN tree_create_top_level(L, rb[L], base) ELSE rb[L]]
    /\ call' = [op |-> "create_top_level", base |-> base]
    /\ result' = [v \in Variants |->
                    IF v \in demo THEN [tag |-> "Unit"] ELSE [tag |-> "Idle"]]
    /\ UNCHANGED <<debug_assertions, demo, flat_blocks, returned>>

\* The call made on the driven allocators alone
CreateTopLevel(base) == Registers(base) /\ UNCHANGED twin

ListResult(L, order) == lists_allocate_exact(L, lists[L], order)
TreeResult(L, order) == tree_allocate_exact(L, rb[L], order)
BitmapResult(order) == Tree_alloc_exact(flat_blocks, order)

\* What the caller sees of a call's outcome
Outcome(r) ==
    IF r.tag \in {"Ok", "Some"} THEN [tag |-> "Ok", address |-> r.address]
    ELSE IF r.tag = "Err"
    THEN (IF r.err = "OrderTooLarge"
          THEN [tag |-> "Err", err |-> r.err, order |-> r.order]
          ELSE [tag |-> "Err", err |-> r.err])
    ELSE [tag |-> r.tag]

VariantResult(v, order) ==
    CASE v = "lists_Vec" -> ListResult("Vec", order)
      [] v = "lists_LinkedList" -> ListResult("LinkedList", order)
      [] v = "tree_Vec" -> TreeResult("Vec", order)
      [] v = "tree_SinglyLinkedList" -> TreeResult("SinglyLinkedList", order)
      [] OTHER -> BitmapResult(order)

\* allocate_exact(order) on the list and tree allocators, alloc_exact(order)
\* on the bitmap Tree
Allocates(order) ==
    /\ ~Panicked
    /\ lists' = [L \in ListKinds |->
                   IF ListVariant(L) \in demo THEN ListResult(L, order).lists
                   ELSE lists[L]]
    /\ rb' = [L \in FreeKinds |->
                IF TreeVariant(L) \in demo THEN TreeResult(L, order).rb ELSE rb[L]]
    /\ flat_blocks' = IF "bitmap" \in demo THEN BitmapResult(order).cells
                      ELSE flat_blocks
    /\ call' = [op |-> "allocate_exact", order |-> order]
    /\ result' = [v \in Variants |->
                    IF v \in demo THEN Outcome(VariantResult(v, order))
                    ELSE [tag |-> "Idle"]]
    /\ returned' = [v \in Variants |->
                      IF v \in demo /\ result'[v].tag = "Ok"
                      THEN returned[v] (+) SetToBag({Handed(result'[v].address, order)})
                      ELSE returned[v]]
    /\ UNCHANGED <<debug_assertions, demo, regions>>

\* The call made on the driven allocators alone
AllocateExact(order) == Allocates(order) /\ UNCHANGED twin

Next ==
    \/ \E base \in RegionBases : CreateTopLevel(base)
    \/ \E order \in RequestOrders : AllocateExact(order)

Spec == Init /\ [][Next]_vars

----------------------------------------------------------------------------
\* The private split called directly, as the tests of both modules do, on one
\* allocator at a time

SingleDemos == {{v} : v \in ListVariants \cup TreeVariants}

\* Every allocator as constructed, nothing called yet
Constructed ==
    /\ debug_assertions \in BOOLEAN
    /\ regions = <<>>
    /\ lists = [L \in ListKinds |-> lists_new]
    /\ rb = [L \in FreeKinds |-> tree_new]
    /\ flat_blocks = Tree_new
    /\ call = [op |-> "new"]
    /\ result = [v \in Variants |-> [tag |-> "New"]]
    /\ returned = [v \in Variants |-> EmptyBag]

InitSplit == demo \in SingleDemos /\ Constructed /\ twin = twin_new

\* What the caller sees of the outcome of split
SplitOutcome(r) ==
    IF r.tag = "Ok" THEN [tag |-> "Split"]
    ELSE IF r.tag = "Err" THEN [tag |-> "Err", err |-> r.err]
    ELSE [tag |-> r.tag]

\* split(BlockIndex { order, index }) on the list allocator
SplitList(order, index) ==
    /\ ~Panicked
    /\ \E L \in ListKinds :
        /\ demo = {ListVariant(L)}
        /\ index <= Len(lists[L][order])
        /\ lists' = [lists EXCEPT
                        ![L] = lists_split(L, lists[L], BlockIndex(order, index)).lists]
        /\ result' = [v \in Variants |->
                        IF v \in demo
                        THEN SplitOutcome(lists_split(L, lists[L],
                                                      BlockIndex(order, index)))
                        ELSE [tag |-> "Idle"]]
    /\ call' = [op |-> "split", order |-> order, index |-> index]
    /\ UNCHANGED <<debug_assertions, demo, regions, rb, flat_blocks, returned, twin>>

\* split(&mut cursor) on the tree allocator; cursor 0 is the null cursor
SplitTree(cursor) ==
    /\ ~Panicked
    /\ \E L \in FreeKinds :
        /\ demo = {TreeVariant(L)}
        /\ cursor <= Len(rb[L].tree)
        /\ rb' = [rb EXCEPT ![L] = tree_split(rb[L], cursor).rb]
        /\ result' = [v \in Variants |->
                        IF v \in demo THEN SplitOutcome(tree_split(rb[L], cursor))
                        ELSE [tag |-> "Idle"]]
    /\ call' = [op |-> "split", cursor |-> cursor]
    /\ UNCHANGED <<debug_assertions, demo, regions, lists, flat_blocks, returned, twin>>

\* The positions a cursor or an index can be given
Positions == 0..(2 * Pow2(MAX_ORDER))

\* The tests that call split register one region first
CreateTheRegion(base) == regions = <<>> /\ CreateTopLevel(base)

NextSplit ==
    \/ \E base \in RegionBases : CreateTheRegion(base)
    \/ \E order \in RequestOrders : AllocateExact(order)
    \/ \E order \in 0..MAX_ORDER, index \in Positions : SplitList(order, index)
    \/ \E cursor \in Positions : SplitTree(cursor)

SpecSplit == InitSplit /\ [][NextSplit]_vars

\* The tree allocators under every operation they have: the two kinds side by
\* side under the public calls with both regions, and each kind alone with one
\* region and split called directly
InitTreeOps ==
    /\ demo \in {TreeVariants} \cup {{v} : v \in TreeVariants}
    /\ Constructed
    /\ twin = twin_new

CreateTreeRegion(base) ==
    /\ demo # TreeVariants => regions = <<>>
    /\ CreateTopLevel(base)

NextTreeOps ==
    \/ \E base \in RegionBases : CreateTreeRegion(base)
    \/ \E order \in RequestOrders : AllocateExact(order)
    \/ \E cursor \in Positions : SplitTree(cursor)

SpecTreeOps == InitTreeOps /\ [][NextTreeOps]_vars

----------------------------------------------------------------------------
\* Two allocators of each kind given the same calls.  The Boxes of the second
\* tree allocator lie where its global allocator puts them: with twin.downward
\* every new Box lies below all the Boxes made before it, so its handles are in
\* the opposite order of those of the first allocator.

\* Where the Box of handle p lies after a call that found `before` Boxes and
\* left `after`: the old Boxes keep their order, the new ones lie below them,
\* the newest lowest
BoxLayout(before, after, p) ==
    IF p <= before THEN p + (after - before) ELSE after + 1 - p

\* The Box that lies at q
BoxAt(before, after, q) ==
    IF q <= after - before THEN after + 1 - q ELSE q - (after - before)

\* The tree allocator t, which had `before` Boxes when the call began, with its
\* Boxes where BoxLayout puts them
Relocated(t, before) ==
    [tree |-> [i \in 1..Len(t.tree) |-> BoxLayout(before, Len(t.heap), t.tree[i])],
     heap |-> [q \in 1..Len(t.heap) |-> t.heap[BoxAt(before, Len(t.heap), q)]],
     free |-> [k \in 0..MAX_ORDER |->
                 [i \in 1..Len(t.free[k]) |->
                     BoxLayout(before, Len(t.heap), t.free[k][i])]]]

InitTwins ==
    /\ demo \in {ListVariants, TreeVariants}
    /\ Constructed
    /\ twin = [twin_new EXCEPT !.downward = TRUE]

\* The second allocators after a call that left the lists ls and the trees ts
\* and returned res
TwinsAfter(ls, ts, res) ==
    [twin EXCEPT
        !.lists = [L \in ListKinds |->
                     IF ListVariant(L) \in demo THEN ls[L] ELSE twin.lists[L]],
        !.rb = [L \in FreeKinds |->
                  IF TreeVariant(L) \notin demo THEN twin.rb[L]
                  ELSE IF twin.downward
                  THEN Relocated(ts[L], Len(twin.rb[L].heap))
                  ELSE ts[L]],
        !.result = [v \in Variants |-> IF v \in demo THEN res[v] ELSE [tag |-> "Idle"]]]

\* create_top_level(base) on both allocators of each kind
TwinsCreateTopLevel(base) ==
    /\ Registers(base)
    /\ twin' = TwinsAfter(
            [L \in ListKinds |-> lists_create_top_level(twin.lists[L], base)],
            [L \in FreeKinds |-> tree_create_top_level(L, twin.rb[L], base)],
            [v \in Variants |-> [tag |-> "Unit"]])

\* What the caller of the second allocator of variant v sees of allocate_exact
TwinResult(v, order) ==
    CASE v = "lists_Vec" ->
            Outcome(lists_allocate_exact("Vec", twin.lists["Vec"], order))
      [] v = "lists_LinkedList" ->
            Outcome(lists_allocate_exact("LinkedList", twin.lists["LinkedList"], order))
      [] v = "tree_Vec" ->
            Outcome(tree_allocate_exact("Vec", twin.rb["Vec"], order))
      [] v = "tree_SinglyLinkedList" ->
            Outcome(tree_allocate_exact("SinglyLinkedList",
                                        twin.rb["SinglyLinkedList"], order))
      [] OTHER -> [tag |-> "Idle"]

\* allocate_exact(order) on both allocators of each kind
TwinsAllocateExact(order) ==
    /\ Allocates(order)
    /\ twin' = TwinsAfter(
            [L \in ListKinds |-> lists_allocate_exact(L, twin.lists[L], order).lists],
            [L \in FreeKinds |-> tree_allocate_exact(L, twin.rb[L], order).rb],
            [v \in Variants |-> TwinResult(v, order)])

NextTwins ==
    \/ \E base \in RegionBases : TwinsCreateTopLevel(base)
    \/ \E order \in RequestOrders : TwinsAllocateExact(order)

SpecTwins == InitTwins /\ [][NextTwins]_vars

----------------------------------------------------------------------------
\* allocate_exact of the tree allocator statement by statement, on one tree
\* allocator with one region.  call holds the position: pc the statement to run
\* next, at the order of the find_or_split frame that runs it, cursor the
\* handle the cursor stands on, entry the allocator as the call found it.

StepDemos == {{v} : v \in TreeVariants}

InitSteps == demo \in StepDemos /\ Constructed /\ twin = twin_new

\* A call is in progress
InCall == call.op = "allocate_exact" /\ call.pc # "returned"

Running == [tag |-> "Running"]

\* The statement at pc leaves the allocator t, the position at and the result
StepTo(L, t, at, res) ==
    /\ rb' = [rb EXCEPT ![L] = t]
    /\ call' = at
    /\ result' = [v \in Variants |-> IF v \in demo THEN res ELSE [tag |-> "Idle"]]
    /\ returned' = [v \in Variants |->
                      IF v \in demo /\ res.tag = "Ok"
                      THEN returned[v] (+) SetToBag({Handed(res.address, at.order)})
                      ELSE returned[v]]
    /\ UNCHANGED <<debug_assertions, demo, regions, lists, flat_blocks, twin>>

StepCreateTopLevel(base) == ~InCall /\ CreateTheRegion(base)

\* allocate_exact is entered: if order > MAX_ORDER { return Err(OrderTooLarge) }
StepEnter(order) ==
    /\ ~InCall
    /\ ~Panicked
    /\ \E L \in FreeKinds :
        /\ demo = {TreeVariant(L)}
        /\ IF order > MAX_ORDER
           THEN StepTo(L, rb[L],
                       [op |-> "allocate_exact", order |-> order, pc |-> "returned",
                        at |-> order, cursor |-> 0, old_ptr |-> 0, ptrs |-> <<>>,
                        entry |-> rb[L]],
                       [tag |-> "Err", err |-> "OrderTooLarge", order |-> order])
           ELSE StepTo(L, rb[L],
                       [op |-> "allocate_exact", order |-> order, pc |-> "pop",
                        at |-> order, cursor |-> 0, old_ptr |-> 0, ptrs |-> <<>>,
                        entry |-> rb[L]],
                       Running)

\* find_or_split at order call.at: let next_free = free[order].pop(); match
StepPop ==
    /\ InCall
    /\ call.pc = "pop"
    /\ \E L \in FreeKinds :
        /\ demo = {TreeVariant(L)}
        /\ LET next_free == FreeList_pop(L, rb[L].free[call.at])
               popped == [rb[L] EXCEPT !.free[call.at] = next_free.list]
           IN  IF next_free.val.tag = "Some"
               THEN StepTo(L, popped,
                           [call EXCEPT
                              !.cursor = next_free.val.val,
                              !.pc = IF call.at = call.order THEN "set_used" ELSE "split",
                              !.at = IF call.at = call.order THEN call.at ELSE call.at - 1],
                           Running)
               ELSE IF call.at = MAX_ORDER
               THEN StepTo(L, popped, [call EXCEPT !.pc = "returned"],
                           [tag |-> "Err", err |-> "NoBlocksAvailable"])
               ELSE StepTo(L, popped, [call EXCEPT !.at = call.at + 1], Running)

\* The frame at order call.at has the cursor of the frame above:
\* let old_ptr = cursor.get().unwrap(); let ptrs = Self::split(&mut cursor).unwrap()
StepSplit ==
    /\ InCall
    /\ call.pc = "split"
    /\ \E L \in FreeKinds :
        /\ demo = {TreeVariant(L)}
        /\ LET halves == tree_split(rb[L], Cursor_from_ptr(rb[L].tree, call.cursor))
           IN  IF halves.tag # "Ok"
               THEN StepTo(L, rb[L], [call EXCEPT !.pc = "returned"], [tag |-> "Panic"])
               ELSE StepTo(L, halves.rb,
                           [call EXCEPT !.pc = "remove",
                                        !.old_ptr = call.cursor,
                                        !.ptrs = halves.ptrs,
                                        !.cursor = halves.rb.tree[halves.cursor]],
                           Running)

\* free[order + 1].remove(old_ptr)
StepRemove ==
    /\ InCall
    /\ call.pc = "remove"
    /\ \E L \in FreeKinds :
        /\ demo = {TreeVariant(L)}
        /\ LET removed == FreeList_remove(L, rb[L].free[call.at + 1], call.old_ptr)
           IN  IF removed.tag = "Panic"
               THEN StepTo(L, rb[L], [call EXCEPT !.pc = "returned"], [tag |-> "Panic"])
               ELSE StepTo(L, [rb[L] EXCEPT !.free[call.at + 1] = removed.list],
                           [call EXCEPT !.pc = "push"], Running)

\* free[order].push(ptrs[0]); free[order].push(ptrs[1]); Ok(cursor)
StepPush ==
    /\ InCall
    /\ call.pc = "push"
    /\ \E L \in FreeKinds :
        /\ demo = {TreeVariant(L)}
        /\ StepTo(L,
                  [rb[L] EXCEPT !.free[call.at] =
                      FreeList_push(L, FreeList_push(L, @, call.ptrs[1]), call.ptrs[2])],
                  [call EXCEPT
                     !.pc = IF call.at = call.order THEN "set_used" ELSE "split",
                     !.at = IF call.at = call.order THEN call.at ELSE call.at - 1],
                  Running)

\* allocate_exact has its block: block.get().unwrap().set_used(true)
StepSetUsed ==
    /\ InCall
    /\ call.pc = "set_used"
    /\ \E L \in FreeKinds :
        /\ demo = {TreeVariant(L)}
        /\ StepTo(L, [rb[L] EXCEPT !.heap[call.cursor] = Block_set_used(@, TRUE)],
                  [call EXCEPT !.pc = "remove_used"], Running)

\* self.free[order].remove(ptr); Ok(block)
StepRemoveUsed ==
    /\ InCall
    /\ call.pc = "remove_used"
    /\ \E L \in FreeKinds :
        /\ demo = {TreeVariant(L)}
        /\ LET removed == FreeList_remove(L, rb[L].free[call.order], call.cursor)
           IN  IF removed.tag = "Panic"
               THEN StepTo(L, rb[L], [call EXCEPT !.pc = "returned"], [tag |-> "Panic"])
               ELSE StepTo(L, [rb[L] EXCEPT !.free[call.order] = removed.list],
                           [call EXCEPT !.pc = "returned"],
                           [tag |-> "Ok",
                            address |-> Block_address(rb[L].heap[call.cursor])])

NextSteps ==
    \/ \E base \in RegionBases : StepCreateTopLevel(base)
    \/ \E order \in RequestOrders : StepEnter(order)
    \/ StepPop
    \/ StepSplit
    \/ StepRemove
    \/ StepPush
    \/ StepSetUsed
    \/ StepRemoveUsed

SpecSteps == InitSteps /\ [][NextSteps]_vars

\* A call that has returned leaves what allocate_exact as a whole leaves
StepsMakeTheCall ==
    \A L \in FreeKinds :
        (demo = {TreeVariant(L)} /\ call.op = "allocate_exact" /\ call.pc = "returned")
        => LET whole == tree_allocate_exact(L, call.entry, call.order)
           IN  /\ result[TreeVariant(L)] = Outcome(whole)
               /\ result[TreeVariant(L)].tag # "Panic" => rb[L] = whole.rb

----------------------------------------------------------------------------
\* The FreeList operations called directly on one free list, as
\* test_linked_list_remove does: free[0] of one tree allocator, which holds
\* raw pointers that are never dereferenced

\* The pointers pushed are 1..MaxHandles, each at most once
MaxHandles == 4

InitFreeList == demo \in StepDemos /\ Constructed /\ twin = twin_new

\* The operation leaves the list and returns res
FreeListStep(L, list, at, res) ==
    /\ rb' = [rb EXCEPT ![L].free[0] = list]
    /\ call' = at
    /\ result' = [v \in Variants |-> IF v \in demo THEN res ELSE [tag |-> "Idle"]]
    /\ UNCHANGED <<debug_assertions, demo, regions, lists, flat_blocks, returned, twin>>

FreeListPush(h) ==
    /\ ~Panicked
    /\ \E L \in FreeKinds :
        /\ demo = {TreeVariant(L)}
        /\ \A i \in 1..Len(rb[L].free[0]) : rb[L].free[0][i] # h
        /\ FreeListStep(L, FreeList_push(L, rb[L].free[0], h),
                        [op |-> "push", handle |-> h], [tag |-> "Unit"])

FreeListPop ==
    /\ ~Panicked
    /\ \E L \in FreeKinds :
        /\ demo = {TreeVariant(L)}
        /\ FreeListStep(L, FreeList_pop(L, rb[L].free[0]).list, [op |-> "pop"],
                        FreeList_pop(L, rb[L].free[0]).val)

FreeListRemove(h) ==
    /\ ~Panicked
    /\ \E L \in FreeKinds :
        /\ demo = {TreeVariant(L)}
        /\ FreeListStep(L, FreeList_remove(L, rb[L].free[0], h).list,
                        [op |-> "remove", handle |-> h],
                        [tag |-> FreeList_remove(L, rb[L].free[0], h).tag])

NextFreeList ==
    \/ \E h \in 1..MaxHandles : FreeListPush(h)
    \/ FreeListPop
    \/ \E h \in 1..MaxHandles : FreeListRemove(h)

SpecFreeList == InitFreeList /\ [][NextFreeList]_vars

----------------------------------------------------------------------------
\* The demos (lib.rs, lists.rs and tree.rs `demo`)

\* The quotient rounded down: a.floor()
top_level_blocks_floor(blocks, block_size) ==
    (Pow2(block_size + BASE_ORDER) * blocks) \div Pow2(MAX_ORDER + BASE_ORDER)

\* top_level_blocks: 2^(block_size + BASE_ORDER) * blocks / 2^(MAX_ORDER +
\* BASE_ORDER), then ceil().  The f64 product and quotient of a u32 and powers
\* of two are exact; ceil takes the quotient up when there is a remainder.
top_level_blocks(blocks, block_size) ==
    LET numerator == Pow2(block_size + BASE_ORDER) * blocks
        denominator == Pow2(MAX_ORDER + BASE_ORDER)
    IN  IF numerator % denominator = 0 THEN numerator \div denominator
        ELSE (numerator \div denominator) + 1

----------------------------------------------------------------------------
\* PhysicalAllocator for the list allocator: blocks requested by page size

PageSizes == {"Kib4", "Mib2", "Gib1"}

\* PageSize::power_of_two
power_of_two(size) ==
    CASE size = "Kib4" -> 12
      [] size = "Mib2" -> 21
      [] size = "Gib1" -> 30

\* The order taken one too large
PageSize_order_one_more(size) == U8Sub(power_of_two(size), MIN_ORDER - 1)

\* size.power_of_two() - MIN_ORDER, on u8
PageSize_order(size) == U8Sub(power_of_two(size), MIN_ORDER)

\* PhysicalAllocator::alloc: both unwraps panic on what they are not given
lists_alloc(L, ls, size) ==
    LET Panic == [tag |-> "Panic", lists |-> ls]
        Unwrapped(r) ==
            IF r.tag # "Ok" THEN Panic
            ELSE [tag |-> "Ok", lists |-> r.lists, address |-> r.address,
                  order |-> r.index.order]
    IN  IF U8SubPanics(power_of_two(size), MIN_ORDER) THEN Panic
        ELSE Unwrapped(lists_allocate_exact(L, ls, PageSize_order(size)))

InitAlloc == demo = ListVariants /\ Constructed /\ twin = twin_new

\* alloc(size) on both list allocators
Alloc(size) ==
    /\ ~Panicked
    /\ lists' = [L \in ListKinds |-> lists_alloc(L, lists[L], size).lists]
    /\ call' = [op |-> "alloc", size |-> size]
    /\ result' = [v \in Variants |->
                    CASE v = "lists_Vec" -> Outcome(lists_alloc("Vec", lists["Vec"], size))
                      [] v = "lists_LinkedList" ->
                            Outcome(lists_alloc("LinkedList", lists["LinkedList"], size))
                      [] OTHER -> [tag |-> "Idle"]]
    /\ returned' = [v \in Variants |->
                      IF result'[v].tag = "Ok"
                      THEN returned[v] (+) SetToBag({Handed(result'[v].address,
                                                           PageSize_order(size))})
                      ELSE returned[v]]
    /\ UNCHANGED <<debug_assertions, demo, regions, rb, flat_blocks, twin>>

NextAlloc ==
    \/ \E base \in RegionBases : CreateTopLevel(base)
    \/ \E order \in RequestOrders : AllocateExact(order)
    \/ \E size \in PageSizes : Alloc(size)

SpecAlloc == InitAlloc /\ [][NextAlloc]_vars

----------------------------------------------------------------------------
\* The packed Block of the tree allocator bit by bit.  A u64 is the set of the
\* positions of its bits that are 1; bit 0 is the least significant.

U64 == SUBSET (0..63)

\* u64::from(order) of a u8
u64_from(n) == {i \in 0..7 : (n \div Pow2(i)) % 2 = 1}

\* The number the bits of w from i up to n - 1 stand for
RECURSIVE LowBits(_, _, _)
LowBits(w, i, n) ==
    IF i >= n THEN 0 ELSE (IF i \in w THEN Pow2(i) ELSE 0) + LowBits(w, i + 1, n)

\* `as u8` of a u64: the low eight bits
as_u8(w) == LowBits(w, 0, 8)

\* BitField::set_bit(bit, value)
set_bit(w, bit, value) == IF value THEN w \cup {bit} ELSE w \ {bit}

\* BitField::get_bit(bit)
get_bit(w, bit) == bit \in w

\* BitField::set_bits asserts that the value fits into the bit range
fits(value, start, end) == \A i \in value : i < end - start

\* BitField::set_bits(start..end, value), the value fitting
set_bits(w, start, end, value) ==
    {i \in w : i < start \/ i >= end} \cup {i + start : i \in value}

\* BitField::get_bits(start..end)
get_bits(w, start, end) == {i - start : i \in {j \in w : start <= j /\ j < end}}

\* Block::new on the bits: begin_address is the usize as a u64, order a u8
Packed_new(begin_address, order, used) ==
    IF ~fits(u64_from(order), 1, 8) \/ ~fits(begin_address, 8, 64)
    THEN [tag |-> "Panic"]
    ELSE [tag |-> "Ok",
          bit_field |-> set_bits(set_bits(set_bit({}, 0, used), 1, 8, u64_from(order)),
                                 8, 64, begin_address)]

\* Block::used
Packed_used(bit_field) == get_bit(bit_field, 0)

\* Block::set_used
Packed_set_used(bit_field, used) == set_bit(bit_field, 0, used)

\* The order read from six bits
Packed_order_six_bits(bit_field) == as_u8(get_bits(bit_field, 1, 7))

\* Block::order
Packed_order(bit_field) == as_u8(get_bits(bit_field, 1, 8))

\* Block::address
Packed_address(bit_field) == get_bits(bit_field, 8, 64)

\* Orders given to Block::new: the ends of the seven-bit range, values inside
\* it, and the u8 values that do not fit
PackedOrders == {0, 1, MAX_ORDER, 63, 64, 126, 127, 128, U8_MAX}

\* Addresses given to Block::new: zero, the largest of 56 bits, single bits at
\* both ends and at the page size, mixed patterns, and two that do not fit
PackedAddresses ==
    {{}, 0..55, {0}, {55}, {MIN_ORDER}, {i \in 0..55 : i % 2 = 0},
     {i \in 0..55 : i % 2 = 1}, 0..7, 48..55, {56}, 0..63}

InitPacked == demo \in StepDemos /\ Constructed /\ twin = twin_new

\* The operation was called as `at` and left res
PackedStep(at, res) ==
    /\ call' = at
    /\ result' = [v \in Variants |-> IF v \in demo THEN res ELSE [tag |-> "Idle"]]
    /\ UNCHANGED <<debug_assertions, demo, regions, lists, rb, flat_blocks,
                   returned, twin>>

\* Block::new(begin_address, order, used)
PackedNew(begin_address, order, used) ==
    /\ begin_address \in U64
    /\ PackedStep([op |-> "Block::new", begin_address |-> begin_address,
                   order |-> order, used |-> used],
                  Packed_new(begin_address, order, used))

\* block.set_used(used) on the block the last operation left
PackedSetUsed(used) ==
    /\ call.op \in {"Block::new", "set_used"}
    /\ \E v \in demo :
        /\ result[v].tag = "Ok"
        /\ PackedStep([op |-> "set_used", used |-> used,
                       before |-> result[v].bit_field],
                      [tag |-> "Ok",
                       bit_field |-> Packed_set_used(result[v].bit_field, used)])

NextPacked ==
    \/ \E begin_address \in PackedAddresses, order \in PackedOrders, used \in BOOLEAN :
          PackedNew(begin_address, order, used)
    \/ \E used \in BOOLEAN : PackedSetUsed(used)

SpecPacked == InitPacked /\ [][NextPacked]_vars

----------------------------------------------------------------------------
\* The three variants side by side on one region at base 0: both list
\* allocators and both tree allocators with create_top_level(0) called, and
\* one bitmap Tree, all given the same allocation requests

InitLockstep == demo = Variants /\ Constructed /\ twin = twin_new

\* create_top_level(0) on the list and tree allocators, once
LockstepCreateTopLevel ==
    /\ regions = <<>>
    /\ CreateTopLevel(0)

\* The same request made of every allocator
LockstepAllocateExact(order) ==
    /\ regions = <<0>>
    /\ AllocateExact(order)

NextLockstep ==
    \/ LockstepCreateTopLevel
    \/ \E order \in RequestOrders \cup TooLarge : LockstepAllocateExact(order)

SpecLockstep == InitLockstep /\ [][NextLockstep]_vars

----------------------------------------------------------------------------
\* Properties of the allocators

HandedOut(v) == BagToSet(returned[v])

\* The allocators the run drives; the others stay as constructed
DrivenLists == {L \in ListKinds : ListVariant(L) \in demo}
DrivenTrees == {L \in FreeKinds : TreeVariant(L) \in demo}
BitmapDriven == "bitmap" \in demo

\* The bytes of two handed-out blocks intersect
Overlap(x, y) ==
    /\ x.address < y.address + BlockSize(y.order)
    /\ y.address < x.address + BlockSize(x.order)

\* Every record of a list allocator, whatever its list
ListRecords(L) ==
    UNION {{lists[L][k][i] : i \in 1..Len(lists[L][k])} : k \in 0..MAX_ORDER}

\* Every record a tree allocator has ever boxed
TreeRecords(L) == {rb[L].heap[p] : p \in 1..Len(rb[L].heap)}

\* C1: the addresses returned by successful allocate_exact calls on one
\* allocator (list with Vec or LinkedList, tree with Vec or linked free lists,
\* one bitmap Tree) are pairwise distinct, whatever the regions registered and
\* whatever the mix of orders requested.
C1_AddressesDistinct ==
    \A v \in demo :
        \A x \in HandedOut(v) :
            /\ CopiesIn(x, returned[v]) = 1
            /\ \A y \in HandedOut(v) : x.address = y.address => x = y

\* Both list allocators have handed out blocks of two orders from both regions
C1_Witness ==
    /\ demo = ListVariants
    /\ \A v \in ListVariants :
        \E x, y \in HandedOut(v) :
            /\ x.order # y.order
            /\ x.address < Pow2(TOP_ORDER)
            /\ y.address >= Pow2(TOP_ORDER)

\* C2: the blocks handed out by one allocator occupy pairwise disjoint byte
\* ranges [a, a + 2^(BASE_ORDER+k)), for any mix of orders and every variant.
C2_BlocksDisjoint ==
    \A v \in demo :
        \A x \in HandedOut(v) :
            /\ CopiesIn(x, returned[v]) = 1
            /\ \A y \in HandedOut(v) : x # y => ~Overlap(x, y)

\* A bitmap Tree exhausted by blocks of different orders, a larger block lying
\* to the left of a smaller one
C2_Witness ==
    /\ demo = {"bitmap"}
    /\ flat_blocks[0] = 0
    /\ \E x, y \in HandedOut("bitmap") : x.order > y.order /\ x.address < y.address

\* C3: every address returned for order k is a multiple of 2^(BASE_ORDER+k),
\* and every block record of a list or tree allocator has an address that is
\* a multiple of 2^(BASE_ORDER + its order).
C3_Aligned ==
    /\ \A v \in demo :
        \A x \in HandedOut(v) : x.address % Pow2(BASE_ORDER + x.order) = 0
    /\ \A L \in DrivenLists :
        \A b \in ListRecords(L) : b.begin_address % Pow2(BASE_ORDER + b.order) = 0
    /\ \A L \in DrivenTrees :
        \A w \in TreeRecords(L) :
            Block_address(w) % Pow2(BASE_ORDER + Block_order(w)) = 0

\* A second buddy of order 0 was handed out by the list allocators: its address
\* is aligned to its own size and to no larger one
C3_Witness ==
    /\ demo = ListVariants
    /\ \A v \in ListVariants :
        \E x \in HandedOut(v) :
            x.order = 0 /\ x.address % Pow2(BASE_ORDER + 1) # 0

InRegion(x, base) ==
    /\ base <= x.address
    /\ x.address + BlockSize(x.order) <= base + Pow2(BASE_ORDER + MAX_ORDER)

\* C4: every block handed out by a list or tree allocator lies entirely inside
\* one registered region [b, b + 2^(BASE_ORDER+MAX_ORDER)); every block handed
\* out by a bitmap Tree lies inside [0, 2^(BASE_ORDER+MAX_ORDER)).
C4_InsideRegion ==
    /\ \A v \in demo \ {"bitmap"} :
        \A x \in HandedOut(v) : \E base \in Registered : InRegion(x, base)
    /\ \A x \in HandedOut("bitmap") : InRegion(x, 0)

\* The tree allocators handed out the last order-0 block of the upper region
C4_Witness ==
    /\ demo = TreeVariants
    /\ \A v \in TreeVariants :
        \E x \in HandedOut(v) :
            x.order = 0 /\ x.address + BlockSize(0) = 2 * Pow2(TOP_ORDER)

\* A Free record of some order k..MAX_ORDER exists in a list allocator
lists_has_free(ls, k) ==
    \E j \in k..MAX_ORDER : \E i \in 1..Len(ls[j]) : ls[j][i].state = "Free"

\* A record with the used bit clear and an order k..MAX_ORDER is in the RBTree
tree_has_free(t, k) ==
    \E i \in 1..Len(t.tree) :
        /\ ~Block_used(t.heap[t.tree[i]])
        /\ Block_order(t.heap[t.tree[i]]) \in k..MAX_ORDER

NoBlocksAvailable == [tag |-> "Err", err |-> "NoBlocksAvailable"]

\* C5: in the list and tree allocators allocate_exact(k), k <= MAX_ORDER,
\* fails with NoBlocksAvailable exactly when no Free record of any order j,
\* k <= j <= MAX_ORDER, exists; in every other case it succeeds.
C5_FailsIffNoFreeRecord ==
    \A k \in 0..MAX_ORDER :
        /\ \A L \in DrivenLists :
            IF lists_has_free(lists[L], k)
            THEN Outcome(ListResult(L, k)).tag = "Ok"
            ELSE Outcome(ListResult(L, k)) = NoBlocksAvailable
        /\ \A L \in DrivenTrees :
            IF tree_has_free(rb[L], k)
            THEN Outcome(TreeResult(L, k)).tag = "Ok"
            ELSE Outcome(TreeResult(L, k)) = NoBlocksAvailable

\* A request failed in the tree allocators while a record of a lower order was
\* still free, and a request of that lower order would succeed
C5_Witness ==
    /\ demo = TreeVariants
    /\ call.op = "allocate_exact"
    /\ call.order \in 1..MAX_ORDER
    /\ \A L \in FreeKinds :
        /\ result[TreeVariant(L)] = NoBlocksAvailable
        /\ tree_has_free(rb[L], 0)
        /\ ~tree_has_free(rb[L], call.order)

\* The aligned blocks of order k of a bitmap Tree
AlignedBlocks(k) ==
    {Handed(i * BlockSize(k), k) : i \in 0..(Pow2(MAX_ORDER - k) - 1)}

\* Some aligned order-k block is disjoint from every block handed out
FreeAligned(k) ==
    \E c \in AlignedBlocks(k) : \A x \in HandedOut("bitmap") : ~Overlap(c, x)

\* C6: in a bitmap Tree the root's order_free is 0 exactly when nothing can be
\* allocated, and otherwise order_free - 1 is the largest order k for which an
\* aligned order-k block disjoint from every handed-out block exists;
\* alloc_exact(k) returns None exactly when no aligned order-k block is
\* entirely unallocated.
C6_RootTellsTheTruth ==
    BitmapDriven =>
        /\ flat_blocks[0] = 0 <=> \A k \in 0..MAX_ORDER : ~FreeAligned(k)
        /\ flat_blocks[0] # 0 =>
            /\ flat_blocks[0] - 1 \in 0..MAX_ORDER
            /\ FreeAligned(flat_blocks[0] - 1)
            /\ \A k \in 0..MAX_ORDER : k > flat_blocks[0] - 1 => ~FreeAligned(k)
        /\ \A k \in RequestOrders \cup TooLarge :
            BitmapResult(k).tag = "None" <=> ~(k <= MAX_ORDER /\ FreeAligned(k))

\* A bitmap Tree with blocks handed out whose root says that order 0 is the
\* largest order left, just after a larger request was refused
C6_Witness ==
    /\ demo = {"bitmap"}
    /\ flat_blocks[0] = 1
    /\ call.op = "allocate_exact"
    /\ call.order \in 1..MAX_ORDER
    /\ result["bitmap"].tag = "None"
    /\ HandedOut("bitmap") # {}

\* C7: in the list and tree allocators allocate_exact(order) with
\* order > MAX_ORDER returns OrderTooLarge(order), leaves the state unchanged,
\* does not panic and does not reach find_or_split.
C7_OrderTooLarge ==
    \A order \in TooLarge :
        /\ \A L \in DrivenLists :
            /\ Outcome(ListResult(L, order))
                 = [tag |-> "Err", err |-> "OrderTooLarge", order |-> order]
            /\ ListResult(L, order).lists = lists[L]
            /\ ListResult(L, order).depth = 0
        /\ \A L \in DrivenTrees :
            /\ Outcome(TreeResult(L, order))
                 = [tag |-> "Err", err |-> "OrderTooLarge", order |-> order]
            /\ TreeResult(L, order).rb = rb[L]
            /\ TreeResult(L, order).depth = 0

\* The list allocators, holding split blocks, have just answered a request for
\* an order above MAX_ORDER
C7_Witness ==
    /\ demo = ListVariants
    /\ call.op = "allocate_exact"
    /\ call.order \in TooLarge
    /\ \A L \in ListKinds :
        /\ result[ListVariant(L)].tag = "Err"
        /\ result[ListVariant(L)].err = "OrderTooLarge"
        /\ lists[L][0] # <<>>

\* C8: in a bitmap Tree alloc_exact(desired_order) with
\* desired_order > MAX_ORDER returns None in every reachable state, the fresh
\* tree whose root holds MAX_ORDER + 1 included, changes no cell and never
\* evaluates MAX_ORDER - desired_order.
C8_BitmapOrderTooLarge ==
    BitmapDriven =>
        \A order \in TooLarge :
            /\ BitmapResult(order).tag = "None"
            /\ BitmapResult(order).cells = flat_blocks
            /\ BitmapResult(order).max_level = None

\* A fresh bitmap Tree has just refused a request for order MAX_ORDER + 1
C8_Witness ==
    /\ demo = {"bitmap"}
    /\ flat_blocks = Tree_new
    /\ flat_blocks[0] = MAX_ORDER + 1
    /\ call.op = "allocate_exact"
    /\ call.order = MAX_ORDER + 1
    /\ result["bitmap"].tag = "None"

\* The valid orders below the one just requested
SmallerOrders == {k \in 0..MAX_ORDER : k < call'.order}

\* A step in which a variant answered NoBlocksAvailable (None in the bitmap)
\* changed nothing of that variant, and every smaller order is answered after
\* the step as it would have been before
FailureChangesNothing ==
    /\ \A L \in DrivenLists :
        result'[ListVariant(L)] = NoBlocksAvailable =>
            /\ lists'[L] = lists[L]
            /\ returned'[ListVariant(L)] = returned[ListVariant(L)]
            /\ \A k \in SmallerOrders :
                Outcome(lists_allocate_exact(L, lists'[L], k)) = Outcome(ListResult(L, k))
    /\ \A L \in DrivenTrees :
        result'[TreeVariant(L)] = NoBlocksAvailable =>
            /\ rb'[L] = rb[L]
            /\ returned'[TreeVariant(L)] = returned[TreeVariant(L)]
            /\ \A k \in SmallerOrders :
                Outcome(tree_allocate_exact(L, rb'[L], k)) = Outcome(TreeResult(L, k))
    /\ result'["bitmap"].tag = "None" =>
            /\ flat_blocks' = flat_blocks
            /\ returned'["bitmap"] = returned["bitmap"]
            /\ \A k \in SmallerOrders :
                Outcome(Tree_alloc_exact(flat_blocks', k)) = Outcome(BitmapResult(k))

\* C9: an allocation that fails for lack of space leaves the allocator's state
\* exactly as it was, in all variants, so that a later request for a smaller
\* order is answered as it would have been before the failure, with the same
\* address.
C9_FailureChangesNothing == [][FailureChangesNothing]_vars

\* A bitmap Tree refused a valid order for lack of space while a smaller order
\* can still be had
C9_Witness ==
    /\ demo = {"bitmap"}
    /\ call.op = "allocate_exact"
    /\ call.order \in 1..MAX_ORDER
    /\ result["bitmap"].tag = "None"
    /\ \E k \in 0..(call.order - 1) : BitmapResult(k).tag = "Some"

\* The sequence without the element x
Without(seq, x) == SelectSeq(seq, LAMBDA e : e # x)

\* The records of a tree allocator in the order of the RBTree
TreeInOrder(t) == [i \in 1..Len(t.tree) |-> t.heap[t.tree[i]]]

\* A create_top_level step adds one Free top-order record to a list allocator
ListGainsTopLevel(L) ==
    lists'[L] = [lists[L] EXCEPT ![MAX_ORDER] =
                    Append(@, Block(call'.base, MAX_ORDER, "Free"))]

\* A create_top_level step boxes one Free top-order record, inserts it in the
\* RBTree and pushes one handle to it on free[MAX_ORDER]
TreeGainsTopLevel(L) ==
    /\ rb'[L].heap = Append(rb[L].heap, Block_new(call'.base, MAX_ORDER, FALSE))
    /\ Len(rb'[L].tree) = Len(rb[L].tree) + 1
    /\ Without(rb'[L].tree, Len(rb'[L].heap)) = rb[L].tree
    /\ \A k \in 0..(MAX_ORDER - 1) : rb'[L].free[k] = rb[L].free[k]
    /\ Len(rb'[L].free[MAX_ORDER]) = Len(rb[L].free[MAX_ORDER]) + 1
    /\ Without(rb'[L].free[MAX_ORDER], Len(rb'[L].heap)) = rb[L].free[MAX_ORDER]

\* The list allocators hold exactly the Free top-order records of the regions
\* at 0 and 2^(BASE_ORDER+MAX_ORDER), in ascending address order
ListsHoldTheTwoRegions ==
    \A L \in ListKinds : ListVariant(L) \in demo =>
        /\ lists[L][MAX_ORDER]
             = << Block(0, MAX_ORDER, "Free"),
                  Block(Pow2(BASE_ORDER + MAX_ORDER), MAX_ORDER, "Free") >>
        /\ \A k \in 0..(MAX_ORDER - 1) : lists[L][k] = <<>>

\* The tree allocators hold exactly these two records, in ascending address
\* order, and two handles on free[MAX_ORDER]
TreesHoldTheTwoRegions ==
    \A L \in FreeKinds : TreeVariant(L) \in demo =>
        /\ TreeInOrder(rb[L])
             = << Block_new(0, MAX_ORDER, FALSE),
                  Block_new(Pow2(BASE_ORDER + MAX_ORDER), MAX_ORDER, FALSE) >>
        /\ Len(rb[L].free[MAX_ORDER]) = 2
        /\ \A k \in 0..(MAX_ORDER - 1) : rb[L].free[k] = <<>>

\* A create_top_level step changes nothing but the one record it adds
CreateTopLevelAddsOne ==
    (call'.op = "create_top_level" /\ regions' # regions) =>
        /\ \A L \in ListKinds :
            IF ListVariant(L) \in demo THEN ListGainsTopLevel(L)
            ELSE lists'[L] = lists[L]
        /\ \A L \in FreeKinds :
            IF TreeVariant(L) \in demo THEN TreeGainsTopLevel(L)
            ELSE rb'[L] = rb[L]
        /\ flat_blocks' = flat_blocks
        /\ returned' = returned

NothingHandedOut == \A v \in Variants : returned[v] = EmptyBag

\* create_top_level was called with 0 and then with 2^(BASE_ORDER+MAX_ORDER)
CalledWithTheTwoBases == regions = <<0, Pow2(BASE_ORDER + MAX_ORDER)>>

\* C10: create_top_level(b) adds exactly one record {b, MAX_ORDER, Free} and
\* changes nothing else: in the list allocator the record is appended to the
\* end of the MAX_ORDER list; in the tree allocator it is inserted in the
\* RBTree and one handle to it is pushed on free[MAX_ORDER].  After the calls
\* with bases 0 and 2^(BASE_ORDER+MAX_ORDER) the allocator holds exactly these
\* two Free top-order records, in ascending address order (the tree allocator
\* in whichever order the two calls were made).
C10_CreateTopLevel ==
    /\ [][CreateTopLevelAddsOne]_vars
    /\ []((CalledWithTheTwoBases /\ NothingHandedOut) => ListsHoldTheTwoRegions)
    /\ []((Registered = RegionBases /\ NothingHandedOut) => TreesHoldTheTwoRegions)

\* The list allocators have just been given the region at
\* 2^(BASE_ORDER+MAX_ORDER) after the region at 0, as the tests do
C10_Witness ==
    /\ demo = ListVariants
    /\ call = [op |-> "create_top_level", base |-> Pow2(BASE_ORDER + MAX_ORDER)]
    /\ CalledWithTheTwoBases
    /\ NothingHandedOut
    /\ \A L \in ListKinds : Len(lists[L][MAX_ORDER]) = 2

\* One region is registered and nothing has been handed out
OneFreshRegion == Len(regions) = 1 /\ NothingHandedOut

\* allocate_exact(k) on list allocator L designates the Used block {b, k}
ListDesignates(L, k, b) ==
    /\ ListResult(L, k).tag = "Ok"
    /\ ListResult(L, k).address = b
    /\ lists_get(L, ListResult(L, k).lists, ListResult(L, k).index)
         = Some(Block(b, k, "Used"))

\* allocate_exact(k) on tree allocator L leaves its cursor on the used block {b, k}
TreeDesignates(L, k, b) ==
    /\ TreeResult(L, k).tag = "Ok"
    /\ TreeResult(L, k).address = b
    /\ TreeResult(L, k).cursor \in 1..Len(TreeResult(L, k).rb.tree)
    /\ TreeResult(L, k).rb.heap[TreeResult(L, k).rb.tree[TreeResult(L, k).cursor]]
         = Block_new(b, k, TRUE)

\* C11: in the list and tree allocators with exactly one registered region at
\* base b and no earlier allocation, allocate_exact(k) succeeds for every k in
\* 0..MAX_ORDER and the block it designates has address b, order k and state
\* Used.
C11_FirstAllocation ==
    OneFreshRegion =>
        \A k \in 0..MAX_ORDER :
            /\ \A L \in DrivenLists : ListDesignates(L, k, regions[1])
            /\ \A L \in DrivenTrees : TreeDesignates(L, k, regions[1])

\* The tree allocators, given only the upper region, have just handed out its
\* first order-0 block as their first allocation
C11_Witness ==
    /\ demo = TreeVariants
    /\ regions = <<Pow2(BASE_ORDER + MAX_ORDER)>>
    /\ call = [op |-> "allocate_exact", order |-> 0]
    /\ \A v \in TreeVariants :
        /\ result[v] = [tag |-> "Ok", address |-> regions[1]]
        /\ HandedOut(v) = {Handed(regions[1], 0)}

\* The number of records in all the lists of a list allocator together
RECURSIVE RecordsUpTo(_, _)
RecordsUpTo(ls, k) == IF k < 0 THEN 0 ELSE Len(ls[k]) + RecordsUpTo(ls, k - 1)
ListRecordCount(L) == RecordsUpTo(lists[L], MAX_ORDER)

\* One region at 0 is registered and a single allocate_exact(MAX_ORDER - 2) has
\* succeeded
AfterSingleSmallAllocation ==
    /\ MAX_ORDER >= 2
    /\ regions = <<0>>
    /\ \A v \in demo \ {"bitmap"} :
        returned[v] = SetToBag({Handed(0, MAX_ORDER - 2)})

\* The records left by the two splits and the allocation, by ascending address
ThreeRecords ==
    << Block_new(0, MAX_ORDER - 2, TRUE),
       Block_new(Pow2(BASE_ORDER + MAX_ORDER - 2), MAX_ORDER - 2, FALSE),
       Block_new(Pow2(BASE_ORDER + MAX_ORDER - 1), MAX_ORDER - 1, FALSE) >>

\* C12 (as the code behaves): after registering one region at 0 and a single
\* allocate_exact(MAX_ORDER - 2) the structure holds exactly 3 records, since
\* split replaces the block it splits: the Used block {0, MAX_ORDER - 2}, its
\* Free buddy and the Free order-(MAX_ORDER - 1) buddy.
C12_ThreeRecords ==
    AfterSingleSmallAllocation =>
        /\ \A L \in DrivenLists :
            /\ ListRecordCount(L) = 3
            /\ lists[L][MAX_ORDER] = <<>>
            /\ lists[L][MAX_ORDER - 1]
                 = << Block(Pow2(BASE_ORDER + MAX_ORDER - 1), MAX_ORDER - 1, "Free") >>
            /\ lists[L][MAX_ORDER - 2]
                 = << Block(0, MAX_ORDER - 2, "Used"),
                      Block(Pow2(BASE_ORDER + MAX_ORDER - 2), MAX_ORDER - 2, "Free") >>
        /\ \A L \in DrivenTrees :
            /\ Len(rb[L].tree) = 3
            /\ TreeInOrder(rb[L]) = ThreeRecords

\* C12 as stated: after registering one region at 0 and a single
\* allocate_exact(MAX_ORDER - 2) the structure holds exactly 5 records.
C12_FiveRecords ==
    AfterSingleSmallAllocation =>
        /\ \A L \in DrivenLists : ListRecordCount(L) = 5
        /\ \A L \in DrivenTrees : Len(rb[L].tree) = 5

\* The list allocators have just made that single allocation
C12_Witness ==
    /\ demo = ListVariants
    /\ AfterSingleSmallAllocation
    /\ call = [op |-> "allocate_exact", order |-> MAX_ORDER - 2]
    /\ \A v \in ListVariants : result[v] = [tag |-> "Ok", address |-> 0]

\* Every alloc_exact that succeeded on the bitmap Tree asked for order k
OnlyOrder(k) == \A x \in HandedOut("bitmap") : x.order = k

\* The number of alloc_exact calls that succeeded on the bitmap Tree
Successes == BagCardinality(returned["bitmap"])

\* C13: on a fresh bitmap Tree, for every order k <= MAX_ORDER, exactly
\* 2^(MAX_ORDER - k) consecutive alloc_exact(k) calls succeed; the next
\* alloc_exact(k), and an alloc_exact of every other order at that point,
\* returns None.
C13_ExactlyThatMany ==
    BitmapDriven =>
        \A k \in 0..MAX_ORDER :
            OnlyOrder(k) =>
                /\ Successes <= Pow2(MAX_ORDER - k)
                /\ Successes < Pow2(MAX_ORDER - k) => BitmapResult(k).tag = "Some"
                /\ Successes = Pow2(MAX_ORDER - k) =>
                    \A j \in RequestOrders \cup TooLarge : BitmapResult(j).tag = "None"

\* After two alloc_exact(MAX_ORDER - 1) the bitmap Tree has just refused
\* alloc_exact(0)
C13_Witness ==
    /\ demo = {"bitmap"}
    /\ OnlyOrder(MAX_ORDER - 1)
    /\ Successes = 2
    /\ call = [op |-> "allocate_exact", order |-> 0]
    /\ result["bitmap"].tag = "None"

\* The first n aligned blocks of order k
FirstBlocks(k, n) == {Handed(i * BlockSize(k), k) : i \in 0..(n - 1)}

\* C14: on a fresh bitmap Tree consecutive alloc_exact(k) calls of one fixed
\* order k return strictly ascending addresses with no gaps: the i-th call
\* (0-based, i < 2^(MAX_ORDER - k)) returns i * 2^(BASE_ORDER + k).
C14_AscendingNoGaps ==
    BitmapDriven =>
        \A k \in 0..MAX_ORDER :
            OnlyOrder(k) =>
                /\ HandedOut("bitmap") = FirstBlocks(k, Successes)
                /\ Successes < Pow2(MAX_ORDER - k) =>
                    /\ BitmapResult(k).tag = "Some"
                    /\ BitmapResult(k).address = Successes * BlockSize(k)

\* The bitmap Tree has just handed out the last of its order-0 blocks
C14_Witness ==
    /\ demo = {"bitmap"}
    /\ OnlyOrder(0)
    /\ Successes = Pow2(MAX_ORDER)
    /\ call = [op |-> "allocate_exact", order |-> 0]
    /\ result["bitmap"]
         = [tag |-> "Ok", address |-> (Pow2(MAX_ORDER) - 1) * BlockSize(0)]

\* The depth of the node with 1-based index n: the root has depth 0
RECURSIVE Depth(_)
Depth(n) == IF n <= 1 THEN 0 ELSE 1 + Depth(n \div 2)

\* The cells as Tree::new is said to leave them
FreshCells ==
    [i \in 0..(Pow2(LEVEL_COUNT) - 2) |-> (MAX_ORDER - Depth(i + 1)) + 1]

\* C15: Tree::new() writes every one of the 2^LEVEL_COUNT - 1 cells, and the
\* cell of each of the 2^d nodes at depth d (0 <= d <= MAX_ORDER) holds
\* order_free = (MAX_ORDER - d) + 1: the root holds MAX_ORDER + 1, nodes 2 and
\* 3 hold MAX_ORDER, and every leaf holds 1.
C15_TreeNew ==
    /\ Tree_new = FreshCells
    /\ \A i \in DOMAIN Tree_new : Tree_new[i] # Uninitialized
    /\ Tree_new[0] = MAX_ORDER + 1
    /\ Tree_new[1] = MAX_ORDER /\ Tree_new[2] = MAX_ORDER
    /\ \A i \in (Pow2(MAX_ORDER) - 1)..(Pow2(LEVEL_COUNT) - 2) : Tree_new[i] = 1
    /\ (BitmapDriven /\ Successes = 0) => flat_blocks = FreshCells

\* A bitmap Tree just constructed
C15_Witness ==
    /\ demo = {"bitmap"}
    /\ call = [op |-> "new"]
    /\ flat_blocks = Tree_new
    /\ Cardinality(DOMAIN flat_blocks) = Pow2(LEVEL_COUNT) - 1

\* The internal nodes of the bitmap Tree, by 1-based index
InternalNodes == 1..(Pow2(MAX_ORDER) - 1)

\* The block the node with 1-based index n stands for
NodeOrder(n) == MAX_ORDER - Depth(n)
NodeBlock(n) ==
    Handed((n - Pow2(Depth(n))) * BlockSize(NodeOrder(n)), NodeOrder(n))

\* A smaller block lying inside the block of node n has been handed out
AllocatedBelow(n) ==
    \E x \in HandedOut("bitmap") :
        x.order < NodeOrder(n) /\ Overlap(x, NodeBlock(n))

\* The larger of the cells of the two children of node n
MaxOfChildren(n) == Max2(flat_blocks[2 * n - 1], flat_blocks[2 * n])

\* C16 (as the code behaves): in every reachable state of the bitmap Tree an
\* internal node holds 0 when its own block has been handed out, the maximum
\* of its two children when a smaller block beneath it has been handed out,
\* and its own order + 1, which is larger than both children, in every other
\* case (the fresh tree included).
C16_InternalNodes ==
    BitmapDriven =>
        \A n \in InternalNodes :
            flat_blocks[n - 1] =
                IF NodeBlock(n) \in HandedOut("bitmap") THEN 0
                ELSE IF AllocatedBelow(n) THEN MaxOfChildren(n)
                ELSE NodeOrder(n) + 1

\* C16 as stated: in every reachable state of the bitmap Tree every internal
\* node i satisfies node[i].order_free == max(node[2i].order_free,
\* node[2i+1].order_free).
C16_MaxOfChildren ==
    BitmapDriven =>
        \A n \in InternalNodes : flat_blocks[n - 1] = MaxOfChildren(n)

\* A bitmap Tree in which node 2 has been handed out whole, a smaller block
\* has been handed out beneath node 3, and the root holds the maximum of the two
C16_Witness ==
    /\ demo = {"bitmap"}
    /\ NodeBlock(2) \in HandedOut("bitmap")
    /\ AllocatedBelow(3)
    /\ flat_blocks[1] = 0
    /\ flat_blocks[2] = MaxOfChildren(3)
    /\ flat_blocks[0] = MaxOfChildren(1)

\* The leaves of the bitmap Tree, by 1-based index: the nodes at depth MAX_ORDER
Leaves == Pow2(MAX_ORDER)..(Pow2(LEVEL_COUNT) - 1)

\* A larger block containing the block of node n has been handed out
AllocatedAbove(n) ==
    \E x \in HandedOut("bitmap") :
        x.order > NodeOrder(n) /\ Overlap(x, NodeBlock(n))

TreeAscending(L) ==
    \A i \in 1..(Len(rb[L].tree) - 1) :
        Block_address(rb[L].heap[rb[L].tree[i]])
            < Block_address(rb[L].heap[rb[L].tree[i + 1]])

\* C18: in the tree variant, after any sequence of create_top_level (distinct
\* aligned bases, in any registration order), split and allocate_exact
\* operations, an in-order traversal of the address-keyed tree yields the
\* block records in strictly ascending address order, although split places
\* the two buddies by cursor position rather than by key.
C18_TreeAscending == \A L \in DrivenTrees : TreeAscending(L)

\* split has just been called directly on a tree allocator that had handed out
\* a block, and has left at least four records
C18_Witness ==
    /\ call.op = "split"
    /\ \E L \in FreeKinds :
        /\ demo = {TreeVariant(L)}
        /\ result[TreeVariant(L)].tag = "Split"
        /\ HandedOut(TreeVariant(L)) # {}
        /\ Len(rb[L].tree) >= 4

\* The handles on free[k] of a tree allocator, as a set
Handles(L, k) == {rb[L].free[k][i] : i \in 1..Len(rb[L].free[k])}

\* The boxes of the tree records that are Free and of order k
FreeOfOrder(L, k) ==
    {rb[L].tree[i] : i \in {j \in 1..Len(rb[L].tree) :
        /\ ~Block_used(rb[L].heap[rb[L].tree[j]])
        /\ Block_order(rb[L].heap[rb[L].tree[j]]) = k}}

\* C19: in the tree variant, after every create_top_level and every
\* allocate_exact, successful or failed, free-list[k] holds for every order k
\* exactly one handle for each tree record that is Free and of order k and
\* nothing else: no handle to a Used record, to a record of another order or
\* to a record no longer in the tree, and no duplicate handle.
C19_FreeListsExact ==
    \A L \in DrivenTrees :
        \A k \in 0..MAX_ORDER :
            /\ Handles(L, k) = FreeOfOrder(L, k)
            /\ Cardinality(Handles(L, k)) = Len(rb[L].free[k])

\* The tree allocators, holding both regions and free blocks of every order,
\* have just handed out an order-0 block obtained by splitting
C19_Witness ==
    /\ demo = TreeVariants
    /\ Len(regions) = 2
    /\ call = [op |-> "allocate_exact", order |-> 0]
    /\ \A L \in FreeKinds :
        /\ result[TreeVariant(L)].tag = "Ok"
        /\ \A k \in 0..MAX_ORDER : rb[L].free[k] # <<>>

\* The aligned order-k blocks disjoint from every block handed out
FreeBlocks(k) ==
    {c \in AlignedBlocks(k) : \A x \in HandedOut("bitmap") : ~Overlap(c, x)}

\* C20: in the bitmap variant, in any reachable state and for any order k, a
\* successful alloc_exact(k) returns the lowest address among all aligned
\* order-k blocks that are disjoint from every block already handed out.
C20_LeftmostFirstFit ==
    BitmapDriven =>
        \A k \in 0..MAX_ORDER :
            BitmapResult(k).tag = "Some" =>
                /\ Handed(BitmapResult(k).address, k) \in FreeBlocks(k)
                /\ \A c \in FreeBlocks(k) : BitmapResult(k).address <= c.address

\* The bitmap Tree has just handed out a block that is not its first one while
\* blocks of the same order further right are still free
C20_Witness ==
    /\ demo = {"bitmap"}
    /\ call.op = "allocate_exact"
    /\ call.order \in 0..MAX_ORDER
    /\ result["bitmap"].tag = "Ok"
    /\ result["bitmap"].address > 0
    /\ \E c \in FreeBlocks(call.order) : c.address > result["bitmap"].address
    /\ \E x \in HandedOut("bitmap") : x.order # call.order

\* C21: two allocators of the same variant that receive the same sequence of
\* create_top_level and allocate_exact calls return the same results, call
\* after call; for the tree allocators this holds wherever their Boxes lie, the
\* handles of the two being different values.
C21_SameResults == \A v \in demo : twin.result[v] = result[v]

\* Both pairs of tree allocators have handed out a block of the second region
\* while the handles of the second pair are not those of the first
C21_Witness ==
    /\ demo = TreeVariants
    /\ call.op = "allocate_exact"
    /\ \A L \in FreeKinds :
        /\ result[TreeVariant(L)].tag = "Ok"
        /\ result[TreeVariant(L)].address >= Pow2(TOP_ORDER)
        /\ twin.rb[L].tree # rb[L].tree
        /\ Len(rb[L].tree) > 2
    /\ twin.downward

\* The number of orders the source is configured with (lib.rs:28)
ConfiguredLevelCount == 19

Ceil(n, d) == Min({m \in 0..n : m * d >= n})

\* Every block the allocator of variant v has handed out has order k
OnlyOrderOf(v, k) == \A x \in HandedOut(v) : x.order = k

\* C23: top_level_blocks(n, k) equals ceil(n / 2^(MAX_ORDER - k)), and it is
\* the number of regions n consecutive allocate_exact(k) calls need in the list
\* and tree variants: the n-th of them succeeds exactly when at least
\* top_level_blocks(n, k) regions are registered, so with that many all n
\* succeed and with one fewer one of them fails.
C23_TopLevelBlocks ==
    \A v \in demo \ {"bitmap"} :
        \A k \in 0..MAX_ORDER :
            OnlyOrderOf(v, k) =>
                LET done == BagCardinality(returned[v])
                IN  /\ \A n \in 0..(done + 1) :
                        top_level_blocks(n, k) = Ceil(n, Pow2(MAX_ORDER - k))
                    /\ Len(regions) >= top_level_blocks(done, k)
                    /\ VariantResult(v, k).tag = "Ok"
                        <=> Len(regions) >= top_level_blocks(done + 1, k)

\* With one region, the third allocate_exact(MAX_ORDER - 1) has just failed on
\* both tree allocators: top_level_blocks asks for two regions
C23_Witness ==
    /\ demo = TreeVariants
    /\ Len(regions) = 1
    /\ call.op = "allocate_exact"
    /\ call.order = MAX_ORDER - 1
    /\ top_level_blocks(3, MAX_ORDER - 1) = 2
    /\ \A v \in TreeVariants :
        /\ OnlyOrderOf(v, MAX_ORDER - 1)
        /\ BagCardinality(returned[v]) = 2
        /\ result[v] = [tag |-> "Err", err |-> "NoBlocksAvailable"]

\* All the records of a list allocator in one sequence, lowest order first
RECURSIVE AllListed(_, _)
AllListed(ls, k) == IF k < 0 THEN <<>> ELSE AllListed(ls, k - 1) \o ls[k]

\* The byte ranges of the records of a list allocator, Free and Used
ListExtents(L) ==
    LET Extents(all) ==
            [i \in 1..Len(all) |-> Handed(all[i].begin_address, all[i].order)]
    IN  Extents(AllListed(lists[L], MAX_ORDER))

\* The byte ranges of the records in the RBTree of a tree allocator
TreeExtents(L) ==
    [i \in 1..Len(rb[L].tree) |->
        Handed(Block_address(rb[L].heap[rb[L].tree[i]]),
               Block_order(rb[L].heap[rb[L].tree[i]]))]

\* The bytes of the first n ranges together
RECURSIVE Bytes(_, _)
Bytes(extents, n) ==
    IF n = 0 THEN 0 ELSE BlockSize(extents[n].order) + Bytes(extents, n - 1)

\* The smallest blocks (by their addresses) that make up the range x
Units(x) == {x.address + u * Pow2(BASE_ORDER) : u \in 0..(Pow2(x.order) - 1)}

\* The ranges are pairwise disjoint and their union is the registered regions:
\* together they cover the smallest blocks of the regions and nothing else, and
\* their sizes add up to the size of the regions, so no two of them meet
Partition(extents) ==
    /\ UNION {Units(extents[i]) : i \in 1..Len(extents)}
         = UNION {Units(Handed(base, MAX_ORDER)) : base \in Registered}
    /\ Bytes(extents, Len(extents)) = Len(regions) * Pow2(TOP_ORDER)

\* C24: in the list and tree variants, in every state between operations, the
\* byte ranges of all existing block records, Free and Used together, are
\* pairwise disjoint and their union is the union of the registered regions.
C24_RecordsPartition ==
    /\ \A L \in DrivenLists : Partition(ListExtents(L))
    /\ \A L \in DrivenTrees : Partition(TreeExtents(L))

\* Both regions of the list allocators are cut down to order 0 somewhere, with
\* Used records in both
C24_Witness ==
    /\ demo = ListVariants
    /\ Len(regions) = 2
    /\ \A L \in ListKinds :
        /\ Len(lists[L][0]) >= 4
        /\ \A base \in Registered :
            \E i \in 1..Len(lists[L][0]) :
                /\ lists[L][0][i].state = "Used"
                /\ InRegion(Handed(lists[L][0][i].begin_address, 0), base)

\* The records the handles of free[k] designate, in the order pop would take
\* them: a Vec pops its last entry, a SinglyLinkedList its front
PopOrder(L, k) ==
    LET Designated(list) == [i \in 1..Len(list) |-> rb[L].heap[list[i]]]
    IN  IF L = "Vec" THEN Reverse(Designated(rb[L].free[k]))
        ELSE Designated(rb[L].free[k])

\* C25: run side by side on the same create_top_level and allocate_exact calls,
\* the Vec-backed and the singly-linked-list-backed tree allocator return the
\* same results at every step, hold the same tree records, and for every order
\* hold free handles to the same records, which pop would take in the same
\* order (the most recently pushed remaining handle first).
C25_FreeListShapesAgree ==
    demo = TreeVariants =>
        /\ result["tree_Vec"] = result["tree_SinglyLinkedList"]
        /\ returned["tree_Vec"] = returned["tree_SinglyLinkedList"]
        /\ TreeInOrder(rb["Vec"]) = TreeInOrder(rb["SinglyLinkedList"])
        /\ \A k \in 0..MAX_ORDER :
            PopOrder("Vec", k) = PopOrder("SinglyLinkedList", k)

\* Both tree allocators hold free handles of two orders after blocks were
\* handed out from both regions
C25_Witness ==
    /\ demo = TreeVariants
    /\ Len(regions) = 2
    /\ result["tree_Vec"].tag = "Ok"
    /\ \A L \in FreeKinds :
        /\ Cardinality({k \in 0..MAX_ORDER : rb[L].free[k] # <<>>}) >= 2
        /\ \E x, y \in HandedOut(TreeVariant(L)) :
            x.address < Pow2(TOP_ORDER) /\ y.address >= Pow2(TOP_ORDER)

\* The two buddies a Free block of order k at address a is split into
ListBuddies(a, k) ==
    <<Block(a, k - 1, "Free"), Block(a + Pow2(BASE_ORDER + k - 1), k - 1, "Free")>>

TreeBuddies(a, k) ==
    <<Block_new(a, k - 1, FALSE), Block_new(a + Pow2(BASE_ORDER + k - 1), k - 1, FALSE)>>

\* split(BlockIndex { order: k, index }) was called on a Free block of order
\* k > 0 of list allocator L: the list of order k loses that entry, the list of
\* order k - 1 gains the two buddies at its end, nothing else changes
ListSplitsInTwo(L) ==
    LET k == call'.order
        index == call'.index
    IN  (/\ index < Len(lists[L][k])
         /\ lists[L][k][index + 1].state = "Free"
         /\ k > 0)
        => /\ result'[ListVariant(L)].tag = "Split"
           /\ lists'[L][k] = RemoveAt(lists[L][k], index)
           /\ lists'[L][k - 1] =
                lists[L][k - 1] \o ListBuddies(lists[L][k][index + 1].begin_address, k)
           /\ \A j \in 0..MAX_ORDER : j \notin {k, k - 1} => lists'[L][j] = lists[L][j]

\* split(&mut cursor) was called on a Free block of order k > 0 of tree
\* allocator L: the two buddies stand where the block stood, every other record
\* is as it was
TreeSplitsInTwo(L) ==
    LET cursor == call'.cursor
        before == TreeInOrder(rb[L])
    IN  (/\ cursor \in 1..Len(before)
         /\ ~Block_used(before[cursor])
         /\ Block_order(before[cursor]) > 0)
        => /\ result'[TreeVariant(L)].tag = "Split"
           /\ TreeInOrder(rb'[L]) =
                SubSeq(before, 1, cursor - 1)
                \o TreeBuddies(Block_address(before[cursor]), Block_order(before[cursor]))
                \o SubSeq(before, cursor + 1, Len(before))

SplitMakesTwoBuddies ==
    call'.op = "split" =>
        /\ \A L \in ListKinds : demo = {ListVariant(L)} => ListSplitsInTwo(L)
        /\ \A L \in FreeKinds : demo = {TreeVariant(L)} => TreeSplitsInTwo(L)

\* C26: split applied to a Free block of order k > 0 at address a removes that
\* block and produces exactly two Free blocks of order k - 1, at a and at
\* a + 2^(BASE_ORDER + k - 1); every other block record is left unchanged
\* (list variant: the source list loses one entry and the order k - 1 list
\* gains the two buddies at its end, first buddy before second; tree variant:
\* the two buddies take the original's place in address order).
C26_SplitMakesTwoBuddies == [][SplitMakesTwoBuddies]_vars

\* split has just divided a block that was not the first entry of its list,
\* beside a Used block, in a list allocator
C26_Witness ==
    \E L \in ListKinds :
        /\ demo = {ListVariant(L)}
        /\ call.op = "split"
        /\ call.order \in 1..(MAX_ORDER - 1)
        /\ call.index > 0
        /\ result[ListVariant(L)].tag = "Split"
        /\ \E b \in ListRecords(L) : b.state = "Used"

\* Some free list of tree allocator L holds the handle ptr
Holds(L, ptr) ==
    \E k \in 0..MAX_ORDER : \E i \in 1..Len(rb[L].free[k]) : rb[L].free[k][i] = ptr

\* The statement that replaces a record by its first buddy, or marks it Used,
\* finds no free list holding a handle to that record
RemovedBeforeMutated ==
    \A L \in FreeKinds :
        (/\ demo = {TreeVariant(L)}
         /\ InCall
         /\ \/ call.pc = "split" /\ call'.pc = "remove"
            \/ call.pc = "set_used" /\ call'.pc = "remove_used")
        => ~Holds(L, call.cursor)

\* C27 as stated: in the tree variant a record's handle is removed from the
\* free list of its order before the record is mutated: at the moment a record
\* is replaced by its first buddy or marked Used, no free list still holds a
\* handle to it.
C27_RemovedBeforeMutated == [][RemovedBeforeMutated]_vars

\* The handle h in free[k] designates a record that is Used or not of order k
Stale(L, k, h) ==
    Block_used(rb[L].heap[h]) \/ Block_order(rb[L].heap[h]) # k

\* C27 as the code has it: a record that came from a split is mutated first
\* and its handle removed by the next statement.  A free list holds a handle to
\* a record that is Used or of another order only between the split and the
\* remove(old_ptr) that follows it, and between set_used and the remove(ptr)
\* that follows it, and then it is the handle that remove takes out; when the
\* call returns no such handle is left.
C27_RemovedRightAfter ==
    \A L \in FreeKinds :
        demo = {TreeVariant(L)} =>
            \A k \in 0..MAX_ORDER :
                \A i \in 1..Len(rb[L].free[k]) :
                    Stale(L, k, rb[L].free[k][i]) =>
                        /\ InCall
                        /\ \/ /\ call.pc = "remove"
                              /\ rb[L].free[k][i] = call.old_ptr
                              /\ k = call.at + 1
                           \/ /\ call.pc = "remove_used"
                              /\ rb[L].free[k][i] = call.cursor
                              /\ k = call.order

\* Inside an allocate_exact that splits twice: the block made by the first
\* split has been split in its turn and its handle is still in its free list
C27_Witness ==
    \E L \in FreeKinds :
        /\ demo = {TreeVariant(L)}
        /\ InCall
        /\ call.pc = "remove"
        /\ call.at + 1 < MAX_ORDER
        /\ Holds(L, call.old_ptr)
        /\ Stale(L, call.at + 1, call.old_ptr)

\* remove(h) takes out the entry equal to h and nothing else
RemoveTakesOutTheHandle ==
    call'.op = "remove" =>
        \A L \in FreeKinds :
            demo = {TreeVariant(L)} =>
                LET list == rb[L].free[0]
                    h == call'.handle
                IN  IF \E i \in 1..Len(list) : list[i] = h
                    THEN /\ result'[TreeVariant(L)].tag = "Some"
                         /\ rb'[L].free[0] = Without(list, h)
                    ELSE /\ result'[TreeVariant(L)].tag = "None"
                         /\ rb'[L].free[0] = list

\* C28: FreeList::remove(h), for both free-list shapes and for every position
\* of h in the list (head, middle, tail, and a list of length 1), removes
\* exactly the entry equal to h, keeps all other entries in their order and
\* returns Some(()); when h is absent it returns None and leaves the list
\* unchanged; it never panics.
C28_RemoveTakesOutTheHandle == [][RemoveTakesOutTheHandle]_vars

\* The Free records of order j of a list allocator, by their index
ListFreeAt(ls, j) == {i \in 1..Len(ls[j]) : ls[j][i].state = "Free"}

\* The Free records of order j in the RBTree of a tree allocator, by position
TreeFreeAt(t, j) ==
    {i \in 1..Len(t.tree) :
        ~Block_used(t.heap[t.tree[i]]) /\ Block_order(t.heap[t.tree[i]]) = j}

\* The only Free block of the allocator is the top block at base b
ListOnlyTopFree(ls, b) ==
    /\ \A j \in 0..(MAX_ORDER - 1) : \A i \in 1..Len(ls[j]) : ls[j][i].state = "Used"
    /\ \E i \in 1..Len(ls[MAX_ORDER]) :
        /\ ls[MAX_ORDER][i].begin_address = b
        /\ ListFreeAt(ls, MAX_ORDER) = {i}

TreeOnlyTopFree(t, b) ==
    /\ \A i \in 1..Len(t.tree) :
        Block_used(t.heap[t.tree[i]]) \/ Block_order(t.heap[t.tree[i]]) = MAX_ORDER
    /\ \E i \in 1..Len(t.tree) :
        /\ Block_address(t.heap[t.tree[i]]) = b
        /\ TreeFreeAt(t, MAX_ORDER) = {i}

\* allocate_exact(k) has split MAX_ORDER - k times, handed out the block at b
\* and left one Free second buddy per order from k up, none at MAX_ORDER
ListStaircase(L, r, k, b) ==
    /\ r.tag = "Ok"
    /\ r.depth = (MAX_ORDER - k) + 1
    /\ r.address = b
    /\ r.block = Block(b, k, "Used")
    /\ \A j \in 0..MAX_ORDER :
        IF k <= j /\ j < MAX_ORDER
        THEN \E i \in 1..Len(r.lists[j]) :
                /\ ListFreeAt(r.lists, j) = {i}
                /\ r.lists[j][i].begin_address = b + Pow2(BASE_ORDER + j)
        ELSE ListFreeAt(r.lists, j) = {}

TreeStaircase(L, r, k, b) ==
    /\ r.tag = "Ok"
    /\ r.depth = (MAX_ORDER - k) + 1
    /\ r.address = b
    /\ r.block = Block_new(b, k, TRUE)
    /\ \A j \in 0..MAX_ORDER :
        IF k <= j /\ j < MAX_ORDER
        THEN \E i \in 1..Len(r.rb.tree) :
                /\ TreeFreeAt(r.rb, j) = {i}
                /\ Block_address(r.rb.heap[r.rb.tree[i]]) = b + Pow2(BASE_ORDER + j)
        ELSE TreeFreeAt(r.rb, j) = {}

\* C29: when allocate_exact(k) has to split, at every level it keeps the
\* lower-address (first) buddy and leaves the higher-address (second) buddy
\* Free: on an allocator whose only free block is the top block at base b it
\* performs exactly MAX_ORDER - k splits, the Used block is at b, and for each
\* order j with k <= j < MAX_ORDER exactly one Free block of order j exists, at
\* b + 2^(BASE_ORDER + j), and none at order MAX_ORDER.
C29_KeepsFirstBuddy ==
    \A base \in Registered :
        /\ \A L \in DrivenLists :
            ListOnlyTopFree(lists[L], base)
            => \A k \in 0..MAX_ORDER : ListStaircase(L, ListResult(L, k), k, base)
        /\ \A L \in DrivenTrees :
            TreeOnlyTopFree(rb[L], base)
            => \A k \in 0..MAX_ORDER : TreeStaircase(L, TreeResult(L, k), k, base)

\* After the first region was handed out whole, allocate_exact(0) has just
\* split the second region down to order 0, on both list allocators
C29_Witness ==
    /\ demo = ListVariants
    /\ Len(regions) = 2
    /\ call.op = "allocate_exact"
    /\ call.order = 0
    /\ \A L \in ListKinds :
        /\ returned[ListVariant(L)] =
             SetToBag({Handed(regions[1], MAX_ORDER), Handed(regions[2], 0)})
        /\ result[ListVariant(L)] = [tag |-> "Ok", address |-> regions[2]]
        /\ \A j \in 0..(MAX_ORDER - 1) : Cardinality(ListFreeAt(lists[L], j)) = 1

\* The places (order of the list, index) of the records of a list allocator
ListPlaces(L) ==
    UNION {{BlockIndex(k, i) : i \in 0..(Len(lists[L][k]) - 1)} : k \in 0..MAX_ORDER}

\* C30: in the list variant, in every reachable state each block record sits
\* in exactly one per-order list and that list is the one of its own order
\* (every record in lists[k] has order == k), so the assertion in split that
\* the block's order equals the index's order never fails.
C30_ListOfItsOrder ==
    \A L \in DrivenLists :
        \A at \in ListPlaces(L) :
            /\ lists[L][at.order][at.index + 1].order = at.order
            /\ lists_get(L, lists[L], at).tag = "Some"
            /\ lists_get(L, lists[L], at).val.order = at.order
            /\ \A other \in ListPlaces(L) :
                lists[L][other.order][other.index + 1].begin_address
                    = lists[L][at.order][at.index + 1].begin_address
                => other = at

\* A list allocator holds records in the lists of several orders, one of them
\* Used, after split was called directly on a block
C30_Witness ==
    \E L \in ListKinds :
        /\ demo = {ListVariant(L)}
        /\ call.op = "split"
        /\ result[ListVariant(L)].tag = "Split"
        /\ \A k \in 0..(MAX_ORDER - 1) : Len(lists[L][k]) >= 1
        /\ Len(lists[L][0]) >= 2
        /\ \E b \in ListRecords(L) : b.state = "Used"

----------------------------------------------------------------------------
\* C31: the packed block word round-trips.  Block::new(address, order, used)
\* with order in 0..127 and address below 2^56 yields a block whose used(),
\* order() and address() return those inputs, and set_used(u) changes only the
\* used bit: order() and address(), and every bit but bit 0, stay as they were.
\* On the words small enough to be numbers the bits are those of the bit field
\* the allocator model computes with.

\* The number a word of at most 24 bits stands for
Number(w) == LowBits(w, 0, 24)

Small(w) == \A i \in w : i < 24

InPackedRange(begin_address, order) ==
    /\ order \in 0..127
    /\ \A i \in begin_address : i < 56

C31_PackedRoundTrip ==
    \A v \in demo :
        /\ (call.op = "Block::new" /\ InPackedRange(call.begin_address, call.order))
           => /\ result[v].tag = "Ok"
              /\ Packed_used(result[v].bit_field) = call.used
              /\ Packed_order(result[v].bit_field) = call.order
              /\ Packed_address(result[v].bit_field) = call.begin_address
              /\ Small(result[v].bit_field)
                 => Number(result[v].bit_field)
                      = Block_new(Number(call.begin_address), call.order, call.used)
        /\ call.op = "set_used"
           => /\ Packed_used(result[v].bit_field) = call.used
              /\ Packed_order(result[v].bit_field) = Packed_order(call.before)
              /\ Packed_address(result[v].bit_field) = Packed_address(call.before)
              /\ result[v].bit_field \ {0} = call.before \ {0}
              /\ Small(call.before)
                 => Number(result[v].bit_field)
                      = Block_set_used(Number(call.before), call.used)

\* set_used(false) was called on a used block of order 127 at the largest address
C31_Witness ==
    /\ call.op = "set_used"
    /\ ~call.used
    /\ Packed_used(call.before)
    /\ Packed_order(call.before) = 127
    /\ Packed_address(call.before) = 0..55
    /\ \E v \in demo : ~Packed_used(result[v].bit_field)

----------------------------------------------------------------------------
\* C32: in the bitmap descent the address accumulator is updated with += on
\* each right turn.  Within one alloc_exact call each bit position
\* BASE_ORDER + MAX_ORDER - level - 1 is added at most once, so no addition
\* carries, the address returned is the one the bitwise-OR formulation gives,
\* and the accumulator never exceeds 2^(BASE_ORDER + MAX_ORDER) - 2^BASE_ORDER,
\* which with the configured LEVEL_COUNT fits the u32 accumulator.

\* Bitwise and, bitwise or of two naturals
RECURSIVE BitAnd(_, _)
BitAnd(a, b) ==
    IF a = 0 \/ b = 0 THEN 0
    ELSE (a % 2) * (b % 2) + 2 * BitAnd(a \div 2, b \div 2)

RECURSIVE BitOr(_, _)
BitOr(a, b) ==
    IF a = 0 THEN b
    ELSE IF b = 0 THEN a
    ELSE Max2(a % 2, b % 2) + 2 * BitOr(a \div 2, b \div 2)

\* addr |= added, over the turns from the i-th on
RECURSIVE OrOfTurns(_, _, _)
OrOfTurns(turns, i, addr) ==
    IF i > Len(turns) THEN addr
    ELSE OrOfTurns(turns, i + 1, BitOr(addr, turns[i].added))

\* The right turns alloc_exact(k) makes in the current Tree
Turns(k) ==
    Tree_descend_turns(flat_blocks, k, U8Sub(MAX_ORDER, k), 0, 1, 0)

LargestAddress == Pow2(BASE_ORDER + MAX_ORDER) - Pow2(BASE_ORDER)

AddsEachBitOnce(turns, address) ==
    /\ \A i \in 1..Len(turns) :
        /\ turns[i].added = Pow2(BASE_ORDER + MAX_ORDER - turns[i].level - 1)
        /\ BitAnd(turns[i].addr, turns[i].added) = 0
        /\ turns[i].addr + turns[i].added = BitOr(turns[i].addr, turns[i].added)
        /\ turns[i].addr + turns[i].added <= LargestAddress
    /\ \A i, j \in 1..Len(turns) : i # j => turns[i].added # turns[j].added
    /\ address = OrOfTurns(turns, 1, 0)
    /\ address <= LargestAddress

C32_AddsEachBitOnce ==
    /\ (Pow2(BASE_ORDER + ConfiguredLevelCount - 1) - Pow2(BASE_ORDER)) \div Pow2(16)
         < Pow2(16)
    /\ BitmapDriven =>
        /\ \A k \in 0..MAX_ORDER :
            BitmapResult(k).tag = "Some"
            => AddsEachBitOnce(Turns(k), BitmapResult(k).address)
        /\ (call.op = "allocate_exact" /\ result["bitmap"].tag = "Ok")
           => result["bitmap"].address <= LargestAddress

\* The bitmap Tree has handed out its last block of order 0, the one at the
\* largest address, reached by a right turn at every level
C32_Witness ==
    /\ demo = {"bitmap"}
    /\ call = [op |-> "allocate_exact", order |-> 0]
    /\ result["bitmap"] = [tag |-> "Ok", address |-> LargestAddress]
    /\ \A n \in Leaves : flat_blocks[n - 1] = 0

----------------------------------------------------------------------------
\* C33: every cell index that alloc_exact reads or writes (the root, the left
\* children of the descent, the chosen node, the siblings and parents of the
\* upward pass) is within the array, 0 <= index < 2^LEVEL_COUNT - 1 counted from
\* 0, for every desired_order and in every reachable state: the bounds
\* assertions that guard the unchecked accesses never fail.

\* Every order a u8 can ask for that the model tells apart
AnyOrder == RequestOrders \cup TooLarge

C33_IndicesInsideTheArray ==
    BitmapDriven =>
        /\ DOMAIN flat_blocks = 0..(Pow2(LEVEL_COUNT) - 2)
        /\ \A desired_order \in AnyOrder :
            /\ BitmapResult(desired_order).tag # "Panic"
            /\ \A index \in BitmapResult(desired_order).touched :
                /\ 0 <= index
                /\ index < Pow2(LEVEL_COUNT) - 1
                /\ index \in DOMAIN flat_blocks
            /\ 0 \in BitmapResult(desired_order).touched
            /\ BitmapResult(desired_order).tag = "Some"
               => BitmapResult(desired_order).node_index - 1
                    \in BitmapResult(desired_order).touched

\* The last cell of the array has been written by an alloc_exact(0) that went
\* right at every level, past a left half handed out whole
C33_Witness ==
    /\ demo = {"bitmap"}
    /\ call = [op |-> "allocate_exact", order |-> 0]
    /\ result["bitmap"].tag = "Ok"
    /\ flat_blocks[Pow2(LEVEL_COUNT) - 2] = 0
    /\ flat_blocks[1] = 0
    /\ \A n \in Leaves : n < Pow2(MAX_ORDER) + Pow2(MAX_ORDER - 1) => flat_blocks[n - 1] = 1

----------------------------------------------------------------------------
\* C34: no sequence of public calls (create_top_level with distinct aligned
\* bases, allocate_exact with any order) reaches an abort inside the list or the
\* tree allocator: split is never invoked on a Used block or on a block of
\* order 0, the unwrap of its result never fails, and every index or handle
\* that find_or_split returns designates an existing Free record of the
\* requested order at the moment allocate_exact marks it Used.

\* find_or_split(k) of the list allocator returns the index of a Free record
ListFindsFree(L, k) ==
    LET Designates(found, got) ==
            /\ found.index.order = k
            /\ got.tag = "Some"
            /\ got.val.state = "Free"
            /\ got.val.order = k
        Found(found) ==
            /\ found.tag # "Panic"
            /\ found.tag = "Ok"
               => Designates(found, lists_get(L, found.lists, found.index))
            /\ lists_allocate_found(L, lists[L], found).tag # "Panic"
    IN  Found(lists_find_or_split(L, lists[L], k))

\* find_or_split(k) of the tree allocator returns a cursor on a Free record
TreeFindsFree(L, k) ==
    LET Designates(found, ptr) ==
            /\ ptr \in 1..Len(found.rb.heap)
            /\ ~Block_used(found.rb.heap[ptr])
            /\ Block_order(found.rb.heap[ptr]) = k
        Found(found) ==
            /\ found.tag # "Panic"
            /\ found.tag = "Ok"
               => /\ found.cursor \in 1..Len(found.rb.tree)
                  /\ Designates(found, found.rb.tree[found.cursor])
    IN  /\ Found(tree_find_or_split(L, rb[L], k))
        /\ TreeResult(L, k).tag # "Panic"

C34_NoAbort ==
    /\ \A L \in DrivenLists :
        /\ result[ListVariant(L)].tag # "Panic"
        /\ \A k \in TooLarge : ListResult(L, k).tag # "Panic"
        /\ \A k \in 0..MAX_ORDER : ListFindsFree(L, k)
    /\ \A L \in DrivenTrees :
        /\ result[TreeVariant(L)].tag # "Panic"
        /\ \A k \in TooLarge : TreeResult(L, k).tag # "Panic"
        /\ \A k \in 0..MAX_ORDER : TreeFindsFree(L, k)

\* An allocate_exact(0) that had to split from the top order down has returned
\* in an allocator that holds Used records, and the next one finds its record
\* without a split
C34_Witness ==
    /\ call = [op |-> "allocate_exact", order |-> 0]
    /\ \/ /\ demo = ListVariants
          /\ \A L \in ListKinds :
              /\ result[ListVariant(L)].tag = "Ok"
              /\ Len(lists[L][0]) >= 2
              /\ lists[L][MAX_ORDER] = <<>>
              /\ lists_find_or_split(L, lists[L], 0).depth = 1
       \/ /\ demo = TreeVariants
          /\ \A L \in FreeKinds :
              /\ result[TreeVariant(L)].tag = "Ok"
              /\ Len(rb[L].free[0]) = 1
              /\ tree_find_or_split(L, rb[L], 0).depth = 1

----------------------------------------------------------------------------
\* C35: allocation is permanent.  Once a block has been handed out no later
\* operation makes any byte of it allocatable again: in the list and tree
\* variants a Used record is never set back to Free, never split and never
\* removed; in the bitmap variant a cell set to 0 by an allocation stays 0
\* through every later alloc_exact.

\* The Used records of a list allocator, of a tree allocator
UsedInLists(ls) ==
    UNION {{ls[k][i] : i \in {j \in 1..Len(ls[k]) : ls[k][j].state = "Used"}} :
           k \in 0..MAX_ORDER}

UsedInTree(t) ==
    {t.heap[t.tree[i]] : i \in {j \in 1..Len(t.tree) : Block_used(t.heap[t.tree[j]])}}

\* The cell of the bitmap Tree that stands for the block x
CellOf(x) ==
    Pow2(MAX_ORDER - x.order) + (x.address \div BlockSize(x.order)) - 1

\* The block the step hands out overlaps none handed out before
FreshBlock(v) ==
    result'[v].tag = "Ok"
    => \A x \in HandedOut(v) : ~Overlap(x, Handed(result'[v].address, call'.order))

\* The Used records `before` are all among those `after`, and so is the Used
\* record of every block handed out
StillUsed(before, after, handed) ==
    /\ before \subseteq after
    /\ handed \subseteq after

AllocationIsPermanent ==
    /\ \A L \in DrivenLists :
        /\ StillUsed(UsedInLists(lists[L]), UsedInLists(lists'[L]),
                     {Block(x.address, x.order, "Used") :
                        x \in BagToSet(returned'[ListVariant(L)])})
        /\ FreshBlock(ListVariant(L))
    /\ \A L \in DrivenTrees :
        /\ StillUsed(UsedInTree(rb[L]), UsedInTree(rb'[L]),
                     {Block_new(x.address, x.order, TRUE) :
                        x \in BagToSet(returned'[TreeVariant(L)])})
        /\ FreshBlock(TreeVariant(L))
    /\ BitmapDriven =>
        /\ \A i \in DOMAIN flat_blocks : flat_blocks[i] = 0 => flat_blocks'[i] = 0
        /\ \A x \in BagToSet(returned'["bitmap"]) : flat_blocks'[CellOf(x)] = 0
        /\ FreshBlock("bitmap")

C35_AllocationIsPermanent == [][AllocationIsPermanent]_vars

\* Blocks of two orders have been handed out and are still Used after a later
\* call that split a block next to them
C35_Witness ==
    /\ demo = ListVariants
    /\ Len(regions) = 2
    /\ call = [op |-> "allocate_exact", order |-> 0]
    /\ \A L \in ListKinds :
        /\ result[ListVariant(L)].tag = "Ok"
        /\ \E x, y \in HandedOut(ListVariant(L)) :
            /\ x.order = MAX_ORDER
            /\ y.order = 0
            /\ y.address # result[ListVariant(L)].address
            /\ Block(x.address, x.order, "Used") \in UsedInLists(lists[L])
            /\ Block(y.address, y.order, "Used") \in UsedInLists(lists[L])

----------------------------------------------------------------------------
\* C36: for a single region registered at base 0 the three variants are
\* observationally equivalent: for every sequence of allocation requests with
\* arbitrary mixed orders <= MAX_ORDER, the list allocator, the tree allocator
\* and a bitmap Tree return the same outcome at every step, the same address
\* or failure at the same steps.

\* What a caller observes: the address, or that the request failed
Observed(r) ==
    IF r.tag = "Ok" THEN [tag |-> "Ok", address |-> r.address]
    ELSE IF r.tag = "None" \/ (r.tag = "Err" /\ r.err = "NoBlocksAvailable")
    THEN [tag |-> "Failure"]
    ELSE r

\* A request of an order above MAX_ORDER is refused by every variant
Refused(r) == r.tag = "None" \/ (r.tag = "Err" /\ r.err = "OrderTooLarge")

C36_VariantsAgree ==
    /\ (call.op = "allocate_exact" /\ call.order <= MAX_ORDER)
       => \A v, w \in Variants :
            /\ Observed(result[v]).tag \in {"Ok", "Failure"}
            /\ Observed(result[v]) = Observed(result[w])
    /\ (call.op = "allocate_exact" /\ call.order > MAX_ORDER)
       => \A v \in Variants : Refused(result[v])
    /\ regions = <<0>>
       => \A k \in 0..MAX_ORDER : \A v \in Variants :
            Observed(Outcome(VariantResult(v, k)))
                = Observed(Outcome(BitmapResult(k)))
    /\ \A v \in Variants : returned[v] = returned["bitmap"]

\* All five allocators have given the same address to a request that followed
\* requests of other orders, and all five refuse the top order
C36_Witness ==
    /\ demo = Variants
    /\ call.op = "allocate_exact"
    /\ \A v \in Variants :
        /\ result[v].tag = "Ok"
        /\ result[v].address = result["bitmap"].address
        /\ result[v].address > 0
        /\ \E x \in HandedOut(v) : x.order # call.order
        /\ Observed(Outcome(VariantResult(v, MAX_ORDER))).tag = "Failure"
        /\ \E k \in 0..MAX_ORDER : Observed(Outcome(VariantResult(v, k))).tag = "Ok"

----------------------------------------------------------------------------
\* C37: a successful bitmap alloc_exact(k) changes only the cells on the path
\* from the chosen node up to the root: the chosen node becomes 0 and each of
\* its MAX_ORDER - k ancestors is recomputed from its two children.  Every
\* other cell, including every descendant of the chosen node and every sibling
\* subtree, keeps its previous value.

\* The nodes from n up to the root, by 1-based index
RECURSIVE PathToRoot(_)
PathToRoot(n) == IF n <= 1 THEN {1} ELSE {n} \cup PathToRoot(n \div 2)

\* alloc_exact(k) leaving `after` with node n chosen
WritesOnlyThePath(k, n, after) ==
    /\ Depth(n) = MAX_ORDER - k
    /\ Cardinality(PathToRoot(n) \ {n}) = MAX_ORDER - k
    /\ after[n - 1] = 0
    /\ \A a \in PathToRoot(n) \ {n} :
        after[a - 1] = Max2(after[2 * a - 1], after[2 * a])
    /\ \A m \in 1..blocks_in_tree(LEVEL_COUNT) :
        m \notin PathToRoot(n) => after[m - 1] = flat_blocks[m - 1]

C37_WritesOnlyThePath ==
    BitmapDriven =>
        \A k \in 0..MAX_ORDER :
            BitmapResult(k).tag = "Some"
            => WritesOnlyThePath(k, BitmapResult(k).node_index, BitmapResult(k).cells)

\* The right half of the Tree has just been handed out whole, its children
\* holding what Tree::new gave them, beside a left half of which a part was
\* handed out before
C37_Witness ==
    /\ demo = {"bitmap"}
    /\ call = [op |-> "allocate_exact", order |-> MAX_ORDER - 1]
    /\ result["bitmap"] = [tag |-> "Ok", address |-> Pow2(TOP_ORDER - 1)]
    /\ flat_blocks[2] = 0
    /\ flat_blocks[5] = Block_new_free(MAX_ORDER - 2)
    /\ flat_blocks[6] = Block_new_free(MAX_ORDER - 2)
    /\ flat_blocks[1] \notin {0, Block_new_free(MAX_ORDER - 1)}
    /\ flat_blocks[0] = flat_blocks[1]

----------------------------------------------------------------------------
\* C38: every allocate_exact / alloc_exact call terminates with a result in
\* every reachable state.  The find_or_split recursion of the list and tree
\* variants nests at most MAX_ORDER - order + 1 calls, and the bitmap descent
\* and upward propagation each run exactly MAX_ORDER - desired_order
\* iterations: the descent ends that many levels below the root and the
\* propagation ends on the root.

\* The call returned to its caller: a value, or an error value
HasResult(r) == r.tag \in {"Ok", "Some", "None", "Err"}

\* The call nested at least one and at most MAX_ORDER - k + 1 calls of
\* find_or_split for a valid order k, and none for an order too large
NestsWithinBound(r, k) ==
    /\ HasResult(r)
    /\ IF k <= MAX_ORDER THEN r.depth >= 1 /\ r.depth <= MAX_ORDER - k + 1
       ELSE r.depth = 0

\* The descent ran MAX_ORDER - k times and so did the upward pass
IteratesExactly(r, k) ==
    /\ HasResult(r)
    /\ r.tag = "Some"
       => /\ k <= MAX_ORDER
          /\ r.iterations = MAX_ORDER - k
          /\ Depth(r.node_index) = MAX_ORDER - k
          /\ r.last_index = 1
    /\ r.tag = "None" => r.iterations = 0

C38_CallsTerminate ==
    /\ \A L \in DrivenLists : \A k \in AnyOrder : NestsWithinBound(ListResult(L, k), k)
    /\ \A L \in DrivenTrees : \A k \in AnyOrder : NestsWithinBound(TreeResult(L, k), k)
    /\ BitmapDriven => \A k \in AnyOrder : IteratesExactly(BitmapResult(k), k)

\* An allocator that, after blocks were handed out, answers the next request
\* of order 0 through the deepest recursion there can be, MAX_ORDER + 1 calls,
\* and the next request of the top order through one call
C38_Witness ==
    /\ demo = TreeVariants
    /\ Len(regions) = 2
    /\ call.op = "allocate_exact"
    /\ \A L \in FreeKinds :
        /\ result[TreeVariant(L)].tag = "Ok"
        /\ TreeResult(L, 0).tag = "Ok"
        /\ TreeResult(L, 0).depth = MAX_ORDER + 1
        /\ TreeResult(L, MAX_ORDER).depth = 1

----------------------------------------------------------------------------
\* C39: the list allocator behaves identically with either backing sequence.
\* For every list length and every index below the length, the LinkedList
\* implementation of get, get_mut and remove (which walks from the front for
\* the first half and from the back for the second half, and removes by
\* split_off / pop_front / append) designates the same element as the Vec
\* implementation, so both allocators return the same addresses for the same
\* call sequence.

\* Every list a driven list allocator holds
HeldLists == {lists[L][k] : L \in DrivenLists, k \in 0..MAX_ORDER}

SameElement(list, index) ==
    /\ Vec_get(list, index) = Some(list[index + 1])
    /\ LinkedList_get(list, index) = Vec_get(list, index)
    /\ Vec_get_mut(list, index) = Some(index)
    /\ LinkedList_get_mut(list, index) = Vec_get_mut(list, index)
    /\ Vec_remove(list, index) = [tag |-> "Ok", list |-> RemoveAt(list, index)]
    /\ LinkedList_remove(list, index) = Vec_remove(list, index)
    /\ Len(RemoveAt(list, index)) = Len(list) - 1
    /\ \A i \in 1..(Len(list) - 1) :
        RemoveAt(list, index)[i] = IF i <= index THEN list[i] ELSE list[i + 1]

C39_SequencesAgree ==
    /\ \A list \in HeldLists : \A index \in 0..(Len(list) - 1) : SameElement(list, index)
    /\ demo = ListVariants
       => /\ lists["Vec"] = lists["LinkedList"]
          /\ result["lists_Vec"] = result["lists_LinkedList"]
          /\ returned["lists_Vec"] = returned["lists_LinkedList"]
          /\ \A k \in AnyOrder :
                Outcome(ListResult("Vec", k)) = Outcome(ListResult("LinkedList", k))

\* Both list allocators have given the same address, that of a block split off
\* a record in the back half of its list, and hold a list of an odd length and
\* one of an even length
C39_Witness ==
    /\ demo = ListVariants
    /\ call.op = "allocate_exact"
    /\ result["lists_Vec"].tag = "Ok"
    /\ result["lists_LinkedList"] = result["lists_Vec"]
    /\ \E list \in HeldLists : Len(list) > 2 /\ Len(list) % 2 = 1
    /\ \E list \in HeldLists : Len(list) >= 2 /\ Len(list) % 2 = 0

----------------------------------------------------------------------------
\* split called on a Free record of order 0 returns BlockSmallestPossible and
\* changes nothing
SplitOfOrderZero ==
    call'.op = "split" =>
        /\ \A L \in ListKinds :
            (/\ demo = {ListVariant(L)}
             /\ call'.order = 0
             /\ call'.index < Len(lists[L][0])
             /\ lists[L][0][call'.index + 1].state = "Free")
            => /\ result'[ListVariant(L)]
                    = [tag |-> "Err", err |-> "BlockSmallestPossible"]
               /\ lists' = lists
        /\ \A L \in FreeKinds :
            (/\ demo = {TreeVariant(L)}
             /\ call'.cursor \in 1..Len(rb[L].tree)
             /\ ~Block_used(rb[L].heap[rb[L].tree[call'.cursor]])
             /\ Block_order(rb[L].heap[rb[L].tree[call'.cursor]]) = 0)
            => /\ result'[TreeVariant(L)]
                    = [tag |-> "Err", err |-> "BlockSmallestPossible"]
               /\ rb' = rb

\* C40: split applied directly to a Free block of order 0 returns the error
\* value BlockSmallestPossible and leaves every list (tree variant: the tree)
\* unchanged; computing the buddy order as original_order - 1 on the 8-bit
\* order before the order-0 check does not abort the call.
C40_SplitOfOrderZero == [][SplitOfOrderZero]_vars

====
